---- MODULE Spec2Model ----
(***************************************************************************)
(* Verification model of simple-sql-db: the paged B+-tree                  *)
(* (pkg/storage/diskbased/bplustree.go), its page manager                  *)
(* (page_manager.go), the row-id codec and DiskStorage (disk storage and   *)
(* row-id sources) and MemoryStorage (storage/memory.go).                  *)
(*                                                                         *)
(* Pages are byte arrays and every node operation is modelled on the bytes *)
(* it reads and writes.  PageSize and MaxKeysPerNode carry scaled-down     *)
(* values (the source has 4096 and 128) so that splits at several levels   *)
(* are reached with a handful of keys.                                     *)
(*                                                                         *)
(* The data specifications (SpecTree, SpecRowID, SpecStorage) model the    *)
(* sequential effect of each call on the data; the mutex protocols of      *)
(* PageManager.cacheMutex and DiskStorage.mu are not part of them.         *)
(***************************************************************************)
EXTENDS Integers, Sequences, FiniteSets, TLC

\* ---------------------------------------------------------------- constants
PageSize == 64
MaxKeysPerNode == 3
NodeHeaderSize == 9
NodeTypeNonLeaf == 0
NodeTypeLeaf == 1

\* ------------------------------------------------------------------- bounds
MaxKey == 3          \* tree keys are the one-byte strings <<1>> .. <<MaxKey>>
MaxOps == 5          \* mutating calls (Insert/Delete) per behaviour of SpecTree
MaxGrowKey == 7      \* SpecGrow inserts the distinct keys <<1>> .. <<MaxGrowKey>>
MaxValLen == 19      \* SpecCapacity inserts values of up to MaxValLen bytes

\* A u32 read from a page that is >= 2^16 is larger than any page offset;
\* all such values behave alike (every slice with it is out of range).
Huge == 256 * 256

NoParent == 0 - 1    \* parentID == nil

Keys == {<<k>> : k \in 1..MaxKey}
Vals == {<<0>>, <<8, 9>>}
\* the values of SpecCapacity: those of SpecTree and one of MaxValLen bytes
LongVal == [i \in 1..MaxValLen |-> 7]
CapVals == Vals \cup {LongVal}

ZeroPage == [i \in 1..PageSize |-> 0]

\* ------------------------------------------------------- byte-level helpers
\* a Go slice expression d[lo:hi] on a page is legal
InRange(lo, hi) == lo >= 0 /\ lo <= hi /\ hi <= PageSize

\* binary.LittleEndian.Uint32(d[o:o+4])
Uint32(d, o) ==
    IF d[o + 3] # 0 \/ d[o + 4] # 0 THEN Huge ELSE d[o + 1] + 256 * d[o + 2]

\* binary.LittleEndian.PutUint32(d[o:o+4], v)
PutUint32(d, o, v) ==
    [d EXCEPT ![o + 1] = v % 256,
              ![o + 2] = (v \div 256) % 256,
              ![o + 3] = (v \div 65536) % 256,
              ![o + 4] = (v \div 16777216) % 256]

\* d[lo:hi] as a byte string
Slice(d, lo, hi) == [i \in 1..(hi - lo) |-> d[lo + i]]

\* copy(d[o:o+len(src)], src)
RECURSIVE CopyAt(_, _, _)
CopyAt(d, o, src) ==
    IF src = <<>> THEN d
    ELSE CopyAt([d EXCEPT ![o + 1] = src[1]], o + 1, Tail(src))

\* bytes.Compare
RECURSIVE BytesCompare(_, _)
BytesCompare(a, b) ==
    IF a = <<>> THEN (IF b = <<>> THEN 0 ELSE 0 - 1)
    ELSE IF b = <<>> THEN 1
    ELSE IF a[1] < b[1] THEN 0 - 1
    ELSE IF a[1] > b[1] THEN 1
    ELSE BytesCompare(Tail(a), Tail(b))

\* --------------------------------------------------------------- page manager
\* pm = [pages |-> sequence of page images (page id p is pages[p+1]),
\*       freePages |-> sequence of page ids]
NumPages(pm) == Len(pm.pages)

RECURSIVE WriteFreeIds(_, _, _)
WriteFreeIds(h, free, i) ==
    IF i >= Len(free) \/ 8 + 4 * i + 4 > PageSize THEN h
    ELSE WriteFreeIds(PutUint32(h, 8 + 4 * i, free[i + 1]), free, i + 1)

updateFreePageList(pm) ==
    LET h1 == PutUint32(pm.pages[1], 0, NumPages(pm))
        h2 == PutUint32(h1, 4, Len(pm.freePages))
    IN  [pm EXCEPT !.pages[1] = WriteFreeIds(h2, pm.freePages, 0)]

\* loadFreePageList: the free page ids the header of an existing file lists;
\* [ok, freePages]
RECURSIVE ReadFreeIds(_, _, _, _)
ReadFreeIds(h, i, n, acc) ==
    IF i = n THEN [ok |-> TRUE, freePages |-> acc]
    ELSE IF ~InRange(8 + 4 * i, 8 + 4 * i + 4) THEN [ok |-> FALSE, freePages |-> <<>>]
    ELSE ReadFreeIds(h, i + 1, n, Append(acc, Uint32(h, 8 + 4 * i)))

loadFreePageList(file) == ReadFreeIds(file[1], 0, Uint32(file[1], 4), <<>>)

\* NewPageManager on a file given as its sequence of pages: a new (empty) file
\* gets the header page createHeaderPage builds and numPages = 1, an existing
\* one is read through loadFreePageList
NewPageManager(file) ==
    IF Len(file) = 0
    THEN [pages |-> <<PutUint32(PutUint32(ZeroPage, 0, 1), 4, 0)>>, freePages |-> <<>>]
    ELSE [pages |-> file, freePages |-> loadFreePageList(file).freePages]

AllocatePage(pm) ==
    IF Len(pm.freePages) > 0
    THEN LET id == pm.freePages[Len(pm.freePages)]
         IN  [id |-> id,
              pm |-> updateFreePageList(
                       [pages |-> [pm.pages EXCEPT ![id + 1] = ZeroPage],
                        freePages |-> SubSeq(pm.freePages, 1, Len(pm.freePages) - 1)])]
    ELSE [id |-> NumPages(pm),
          pm |-> updateFreePageList(
                   [pages |-> Append(pm.pages, ZeroPage), freePages |-> pm.freePages])]

\* GetPage succeeds iff the id is below numPages
GetPageOk(pm, id) == id >= 0 /\ id < NumPages(pm)

\* --------------------------------------------------------------------- B+-tree
\* t = [pm |-> page manager, rootPageID |-> page id]
\* results: [st |-> "ok" | "err" | "panic", t |-> tree afterwards, ...]
Data(t, id) == t.pm.pages[id + 1]
SetData(t, id, d) == [t EXCEPT !.pm.pages[id + 1] = d]

ROk(t) == [st |-> "ok", t |-> t]
RErr(t) == [st |-> "err", t |-> t]
RPanic(t) == [st |-> "panic", t |-> t]

RECURSIVE ReadLeafEntries(_, _, _, _)
ReadLeafEntries(d, offset, n, acc) ==
    IF n = 0 THEN [ok |-> TRUE, entries |-> acc]
    ELSE IF ~InRange(offset, offset + 4) THEN [ok |-> FALSE, entries |-> <<>>]
    ELSE LET keyLen == Uint32(d, offset)
             ko == offset + 4
             vo == ko + keyLen
         IN  IF ~InRange(ko, vo) \/ ~InRange(vo, vo + 4) THEN [ok |-> FALSE, entries |-> <<>>]
             ELSE LET valueLen == Uint32(d, vo)
                  IN  IF ~InRange(vo + 4, vo + 4 + valueLen) THEN [ok |-> FALSE, entries |-> <<>>]
                      ELSE ReadLeafEntries(d, vo + 4 + valueLen, n - 1,
                              Append(acc, [key |-> Slice(d, ko, vo),
                                           value |-> Slice(d, vo + 4, vo + 4 + valueLen)]))

getLeafNodeEntries(d) == ReadLeafEntries(d, NodeHeaderSize, Uint32(d, 1), <<>>)

\* the write loops of insertIntoLeaf / splitLeafNode / deleteFromLeaf
RECURSIVE WriteLeafEntries(_, _, _)
WriteLeafEntries(d, offset, es) ==
    IF es = <<>> THEN [ok |-> TRUE, data |-> d]
    ELSE LET k == es[1].key
             v == es[1].value
             end == offset + 8 + Len(k) + Len(v)
         IN  IF end > PageSize THEN [ok |-> FALSE, data |-> d]
             ELSE WriteLeafEntries(
                    CopyAt(PutUint32(CopyAt(PutUint32(d, offset, Len(k)), offset + 4, k),
                                     offset + 4 + Len(k), Len(v)),
                           offset + 8 + Len(k), v),
                    end, Tail(es))

\* first position (1-based) whose key is greater than key, else Len+1
RECURSIVE InsertPos(_, _, _)
InsertPos(keys, key, i) ==
    IF i > Len(keys) THEN i
    ELSE IF BytesCompare(key, keys[i]) < 0 THEN i
    ELSE InsertPos(keys, key, i + 1)

InsertAt(s, pos, x) == SubSeq(s, 1, pos - 1) \o <<x>> \o SubSeq(s, pos, Len(s))
RemoveAt(s, pos) == SubSeq(s, 1, pos - 1) \o SubSeq(s, pos + 1, Len(s))

\* position (1-based) of the first entry with this key, 0 if none
RECURSIVE KeyIndex(_, _, _)
KeyIndex(es, key, i) ==
    IF i > Len(es) THEN 0
    ELSE IF es[i].key = key THEN i
    ELSE KeyIndex(es, key, i + 1)

RECURSIVE FindChildLoop(_, _, _, _, _, _)
FindChildLoop(d, key, offset, i, numKeys, firstChildID) ==
    IF i >= numKeys THEN
        (IF InRange(offset - 4, offset) THEN [ok |-> TRUE, id |-> Uint32(d, offset - 4)]
         ELSE [ok |-> FALSE, id |-> 0])
    ELSE IF ~InRange(offset, offset + 4) THEN [ok |-> FALSE, id |-> 0]
    ELSE LET keyLen == Uint32(d, offset)
             ko == offset + 4
             o2 == ko + keyLen
         IN  IF ~InRange(ko, o2) THEN [ok |-> FALSE, id |-> 0]
             ELSE IF BytesCompare(key, Slice(d, ko, o2)) < 0 THEN
                     (IF i = 0 THEN [ok |-> TRUE, id |-> firstChildID]
                      ELSE [ok |-> TRUE, id |-> Uint32(d, o2 - keyLen - 8)])
             ELSE IF i = numKeys - 1 THEN
                     (IF InRange(o2, o2 + 4) THEN [ok |-> TRUE, id |-> Uint32(d, o2)]
                      ELSE [ok |-> FALSE, id |-> 0])
             ELSE FindChildLoop(d, key, o2 + 4, i + 1, numKeys, firstChildID)

findChildNode(d, key) ==
    LET numKeys == Uint32(d, 1)
    IN  IF numKeys = 0 THEN [ok |-> TRUE, id |-> Uint32(d, NodeHeaderSize)]
        ELSE FindChildLoop(d, key, NodeHeaderSize + 4, 0, numKeys, Uint32(d, NodeHeaderSize))

\* [st, id]
RECURSIVE findLeafNode(_, _, _)
findLeafNode(t, nodeID, key) ==
    IF ~GetPageOk(t.pm, nodeID) THEN [st |-> "err", id |-> 0]
    ELSE LET d == Data(t, nodeID)
         IN  IF d[1] = NodeTypeLeaf THEN [st |-> "ok", id |-> nodeID]
             ELSE LET c == findChildNode(d, key)
                  IN  IF ~c.ok THEN [st |-> "panic", id |-> 0]
                      ELSE findLeafNode(t, c.id, key)

\* keys and child pointers of an internal node (the extraction loops of
\* insertIntoNonLeaf and splitNonLeafNode)
RECURSIVE ReadNonLeafEntries(_, _, _, _, _)
ReadNonLeafEntries(d, offset, n, keys, ptrs) ==
    IF n = 0 THEN [ok |-> TRUE, keys |-> keys, childPtrs |-> ptrs]
    ELSE IF ~InRange(offset, offset + 4) THEN [ok |-> FALSE, keys |-> <<>>, childPtrs |-> <<>>]
    ELSE LET keyLen == Uint32(d, offset)
             ko == offset + 4
             po == ko + keyLen
         IN  IF ~InRange(ko, po) \/ ~InRange(po, po + 4)
             THEN [ok |-> FALSE, keys |-> <<>>, childPtrs |-> <<>>]
             ELSE ReadNonLeafEntries(d, po + 4, n - 1,
                     Append(keys, Slice(d, ko, po)), Append(ptrs, Uint32(d, po)))

ReadNonLeaf(d) ==
    ReadNonLeafEntries(d, NodeHeaderSize + 4, Uint32(d, 1), <<>>, <<Uint32(d, NodeHeaderSize)>>)

RECURSIVE WriteNonLeafEntries(_, _, _, _)
WriteNonLeafEntries(d, offset, keys, ptrs) ==
    IF keys = <<>> THEN [ok |-> TRUE, data |-> d]
    ELSE LET k == keys[1]
             end == offset + 8 + Len(k)
         IN  IF end > PageSize THEN [ok |-> FALSE, data |-> d]
             ELSE WriteNonLeafEntries(
                    PutUint32(CopyAt(PutUint32(d, offset, Len(k)), offset + 4, k),
                              offset + 4 + Len(k), ptrs[1]),
                    end, Tail(keys), Tail(ptrs))

\* child0 followed by (key, child) pairs, written from NodeHeaderSize
WriteNonLeaf(d, keys, ptrs) ==
    WriteNonLeafEntries(PutUint32(d, NodeHeaderSize, ptrs[1]), NodeHeaderSize + 4, keys, Tail(ptrs))

createNewRoot(t, leftChildID, rightChildID, key) ==
    LET a == AllocatePage(t.pm)
        d1 == PutUint32([ZeroPage EXCEPT ![1] = NodeTypeNonLeaf], 1, 1)
        w == WriteNonLeaf(d1, <<key>>, <<leftChildID, rightChildID>>)
        t1 == [pm |-> a.pm, rootPageID |-> t.rootPageID]
    IN  IF ~w.ok THEN RPanic(t1)
        ELSE ROk([SetData(t1, a.id, w.data) EXCEPT !.rootPageID = a.id])

insertIntoNonLeaf(t, nodeID, rightChildID, key) ==
    LET d == Data(t, nodeID)
        numKeys == Uint32(d, 1)
        r == ReadNonLeaf(d)
    IN  IF ~r.ok THEN RPanic(t)
        ELSE LET pos == InsertPos(r.keys, key, 1)
                 newKeys == InsertAt(r.keys, pos, key)
                 newChildPtrs == InsertAt(r.childPtrs, pos + 1, rightChildID)
                 w == WriteNonLeaf(PutUint32(d, 1, numKeys + 1), newKeys, newChildPtrs)
             IN  IF ~w.ok THEN RPanic(t) ELSE ROk(SetData(t, nodeID, w.data))

RECURSIVE insertIntoParent(_, _, _, _, _)
RECURSIVE splitNonLeafNode(_, _, _, _, _)

splitNonLeafNode(t, nodeID, newChildID, newKey, parentID) ==
    LET d == Data(t, nodeID)
        r == ReadNonLeaf(d)
    IN  IF ~r.ok THEN RPanic(t)
        ELSE LET pos == InsertPos(r.keys, newKey, 1)
                 newKeys == InsertAt(r.keys, pos, newKey)
                 newChildPtrs == InsertAt(r.childPtrs, pos + 1, newChildID)
                 a == AllocatePage(t.pm)
                 t1 == [pm |-> a.pm, rootPageID |-> t.rootPageID]
                 n == Len(newKeys)
                 splitPoint == n \div 2
                 middleKey == newKeys[splitPoint + 1]
                 wl == WriteNonLeaf(PutUint32(d, 1, splitPoint),
                                    SubSeq(newKeys, 1, splitPoint),
                                    SubSeq(newChildPtrs, 1, splitPoint + 1))
                 wr == WriteNonLeaf(PutUint32([ZeroPage EXCEPT ![1] = NodeTypeNonLeaf], 1,
                                              n - (splitPoint + 1)),
                                    SubSeq(newKeys, splitPoint + 2, n),
                                    SubSeq(newChildPtrs, splitPoint + 2, n + 1))
             IN  IF ~wl.ok \/ ~wr.ok THEN RPanic(t1)
                 ELSE LET t2 == SetData(SetData(t1, nodeID, wl.data), a.id, wr.data)
                      IN  IF parentID = NoParent
                          THEN createNewRoot(t2, nodeID, a.id, middleKey)
                          ELSE insertIntoParent(t2, parentID, nodeID, a.id, middleKey)

insertIntoParent(t, parentID, leftChildID, rightChildID, key) ==
    IF ~GetPageOk(t.pm, parentID) THEN RErr(t)
    ELSE IF Uint32(Data(t, parentID), 1) < MaxKeysPerNode - 1
         THEN insertIntoNonLeaf(t, parentID, rightChildID, key)
         ELSE splitNonLeafNode(t, parentID, rightChildID, key, NoParent)

insertIntoLeaf(t, nodeID, key, value) ==
    LET d == Data(t, nodeID)
        numKeys == Uint32(d, 1)
        r == getLeafNodeEntries(d)
    IN  IF ~r.ok THEN RPanic(t)
        ELSE LET keys == [i \in 1..Len(r.entries) |-> r.entries[i].key]
                 pos == InsertPos(keys, key, 1)
                 newEntries == InsertAt(r.entries, pos, [key |-> key, value |-> value])
                 w == WriteLeafEntries(PutUint32(d, 1, numKeys + 1), NodeHeaderSize, newEntries)
             IN  IF ~w.ok THEN RPanic(t) ELSE ROk(SetData(t, nodeID, w.data))

splitLeafNode(t, nodeID, newKey, newValue, parentID) ==
    LET d == Data(t, nodeID)
        r == getLeafNodeEntries(d)
    IN  IF ~r.ok THEN RPanic(t)
        ELSE LET keys == [i \in 1..Len(r.entries) |-> r.entries[i].key]
                 pos == InsertPos(keys, newKey, 1)
                 newEntries == InsertAt(r.entries, pos, [key |-> newKey, value |-> newValue])
                 a == AllocatePage(t.pm)
                 t1 == [pm |-> a.pm, rootPageID |-> t.rootPageID]
                 n == Len(newEntries)
                 splitPoint == n \div 2
                 nextNodeID == Uint32(d, 5)
                 dl == PutUint32(PutUint32(d, 1, splitPoint), 5, a.id)
                 dr == PutUint32(PutUint32([ZeroPage EXCEPT ![1] = NodeTypeLeaf], 5, nextNodeID),
                                 1, n - splitPoint)
                 wl == WriteLeafEntries(dl, NodeHeaderSize, SubSeq(newEntries, 1, splitPoint))
                 wr == WriteLeafEntries(dr, NodeHeaderSize, SubSeq(newEntries, splitPoint + 1, n))
                 splitKey == newEntries[splitPoint + 1].key
             IN  IF ~wl.ok \/ ~wr.ok THEN RPanic(t1)
                 ELSE LET t2 == SetData(SetData(t1, nodeID, wl.data), a.id, wr.data)
                      IN  IF parentID = NoParent
                          THEN createNewRoot(t2, nodeID, a.id, splitKey)
                          ELSE insertIntoParent(t2, parentID, nodeID, a.id, splitKey)

\* the duplicate-key branch of insert (bplustree.go 98-107); i is the 0-based
\* position of the existing key
updateExistingKey(t, nodeID, i, existingKey, value) ==
    LET d == Data(t, nodeID)
        index == NodeHeaderSize + (i * (Len(existingKey) + 8)) + 4 + Len(existingKey)
    IN  IF ~InRange(index, index + 4) \/ ~InRange(index + 4, index + 4 + Len(value))
        THEN RPanic(t)
        ELSE ROk(SetData(t, nodeID, CopyAt(PutUint32(d, index, Len(value)), index + 4, value)))

RECURSIVE insert(_, _, _, _, _)
insert(t, nodeID, key, value, parentID) ==
    IF ~GetPageOk(t.pm, nodeID) THEN RErr(t)
    ELSE LET d == Data(t, nodeID)
             nodeType == d[1]
             numKeys == Uint32(d, 1)
         IN  IF nodeType = NodeTypeLeaf THEN
                 LET r == getLeafNodeEntries(d)
                 IN  IF ~r.ok THEN RPanic(t)
                     ELSE LET i == KeyIndex(r.entries, key, 1)
                          IN  IF i > 0 THEN updateExistingKey(t, nodeID, i - 1, r.entries[i].key, value)
                              ELSE IF numKeys < MaxKeysPerNode - 1
                                   THEN insertIntoLeaf(t, nodeID, key, value)
                                   ELSE splitLeafNode(t, nodeID, key, value, parentID)
             ELSE IF nodeType = NodeTypeNonLeaf THEN
                 LET c == findChildNode(d, key)
                 IN  IF ~c.ok THEN RPanic(t) ELSE insert(t, c.id, key, value, nodeID)
             ELSE RErr(t)

\* BPlusTree.Insert
TreeInsert(t, key, value) == insert(t, t.rootPageID, key, value, NoParent)

\* deleteFromLeaf that only lowers num_keys: the last entry goes, whatever
\* its key
deleteLastFromLeaf(t, nodeID, key) ==
    IF ~GetPageOk(t.pm, nodeID) THEN RErr(t)
    ELSE IF ~getLeafNodeEntries(Data(t, nodeID)).ok THEN RPanic(t)
    ELSE IF KeyIndex(getLeafNodeEntries(Data(t, nodeID)).entries, key, 1) = 0 THEN RErr(t)
    ELSE ROk(SetData(t, nodeID,
                     PutUint32(Data(t, nodeID), 1, Uint32(Data(t, nodeID), 1) - 1)))

deleteFromLeaf(t, nodeID, key) ==
    IF ~GetPageOk(t.pm, nodeID) THEN RErr(t)
    ELSE LET d == Data(t, nodeID)
             numKeys == Uint32(d, 1)
             r == getLeafNodeEntries(d)
         IN  IF ~r.ok THEN RPanic(t)
             ELSE LET keyPosition == KeyIndex(r.entries, key, 1)
                  IN  IF keyPosition = 0 THEN RErr(t)
                      ELSE LET w == WriteLeafEntries(PutUint32(d, 1, numKeys - 1), NodeHeaderSize,
                                                     RemoveAt(r.entries, keyPosition))
                           IN  IF ~w.ok THEN RPanic(t) ELSE ROk(SetData(t, nodeID, w.data))

\* BPlusTree.Delete
TreeDelete(t, key) ==
    LET l == findLeafNode(t, t.rootPageID, key)
    IN  IF l.st = "ok" THEN deleteFromLeaf(t, l.id, key)
        ELSE [st |-> l.st, t |-> t]

\* the scan loop of Get: [st, value]
RECURSIVE GetScan(_, _, _, _)
GetScan(d, key, offset, n) ==
    IF n = 0 THEN [st |-> "err", value |-> <<>>]
    ELSE IF ~InRange(offset, offset + 4) THEN [st |-> "panic", value |-> <<>>]
    ELSE LET keyLen == Uint32(d, offset)
             ko == offset + 4
             vo == ko + keyLen
         IN  IF ~InRange(ko, vo) \/ ~InRange(vo, vo + 4) THEN [st |-> "panic", value |-> <<>>]
             ELSE LET valueLen == Uint32(d, vo)
                  IN  IF Slice(d, ko, vo) = key THEN
                          (IF InRange(vo + 4, vo + 4 + valueLen)
                           THEN [st |-> "ok", value |-> Slice(d, vo + 4, vo + 4 + valueLen)]
                           ELSE [st |-> "panic", value |-> <<>>])
                      ELSE GetScan(d, key, vo + 4 + valueLen, n - 1)

\* BPlusTree.Get
TreeGet(t, key) ==
    LET l == findLeafNode(t, t.rootPageID, key)
    IN  IF l.st # "ok" THEN [st |-> l.st, value |-> <<>>]
        ELSE GetScan(Data(t, l.id), key, NodeHeaderSize, Uint32(Data(t, l.id), 1))

\* the scan loop of FindRange over one leaf: [st, results, done]
RECURSIVE RangeScan(_, _, _, _, _, _)
RangeScan(d, startKey, endKey, offset, n, results) ==
    IF n = 0 THEN [st |-> "ok", results |-> results, done |-> FALSE]
    ELSE IF ~InRange(offset, offset + 4) THEN [st |-> "panic", results |-> <<>>, done |-> TRUE]
    ELSE LET keyLen == Uint32(d, offset)
             ko == offset + 4
             vo == ko + keyLen
         IN  IF ~InRange(ko, vo) \/ ~InRange(vo, vo + 4)
             THEN [st |-> "panic", results |-> <<>>, done |-> TRUE]
             ELSE LET valueLen == Uint32(d, vo)
                      currentKey == Slice(d, ko, vo)
                      inRange == BytesCompare(currentKey, startKey) >= 0
                                   /\ BytesCompare(currentKey, endKey) <= 0
                  IN  IF inRange /\ ~InRange(vo + 4, vo + 4 + valueLen)
                      THEN [st |-> "panic", results |-> <<>>, done |-> TRUE]
                      ELSE LET res2 == IF inRange
                                       THEN Append(results, Slice(d, vo + 4, vo + 4 + valueLen))
                                       ELSE results
                           IN  IF BytesCompare(currentKey, endKey) > 0
                               THEN [st |-> "ok", results |-> res2, done |-> TRUE]
                               ELSE RangeScan(d, startKey, endKey, vo + 4 + valueLen, n - 1, res2)

RECURSIVE RangeWalk(_, _, _, _, _)
RangeWalk(t, leafNodeID, startKey, endKey, results) ==
    IF leafNodeID = 0 THEN [st |-> "ok", results |-> results]
    ELSE IF ~GetPageOk(t.pm, leafNodeID) THEN [st |-> "err", results |-> <<>>]
    ELSE LET d == Data(t, leafNodeID)
             s == RangeScan(d, startKey, endKey, NodeHeaderSize, Uint32(d, 1), results)
         IN  IF s.st # "ok" THEN [st |-> s.st, results |-> <<>>]
             ELSE IF s.done THEN [st |-> "ok", results |-> s.results]
             ELSE RangeWalk(t, Uint32(d, 5), startKey, endKey, s.results)

\* BPlusTree.FindRange
TreeFindRange(t, startKey, endKey) ==
    LET l == findLeafNode(t, t.rootPageID, startKey)
    IN  IF l.st # "ok" THEN [st |-> l.st, results |-> <<>>]
        ELSE RangeWalk(t, l.id, startKey, endKey, <<>>)

\* CreateNewTree followed by NewBPlusTree: the root page is a fresh (dirty)
\* page and is initialised as an empty leaf
CreateNewTree(pm) ==
    LET a == AllocatePage(pm)
        d == PutUint32(PutUint32([ZeroPage EXCEPT ![1] = NodeTypeLeaf], 1, 0), 5, 0)
    IN  SetData([pm |-> a.pm, rootPageID |-> a.id], a.id, d)

\* ============================================================ SpecTree
\* A BPlusTree on a fresh page manager, driven by Insert/Delete/Get/FindRange.
VARIABLES
    tree,      \* the BPlusTree: [pm, rootPageID]
    kv,        \* ghost: key -> value of the last successful Insert, minus successful Deletes
    snap,      \* ghost: what Get returned for every key just before the last Insert
    last,      \* the last mutating call: [op, key, st]
    last2,     \* the mutating call before it
    res,       \* the last call and what it returned
    ops        \* number of mutating calls so far

treeVars == <<tree, kv, snap, last, last2, res, ops>>

NoCall == [op |-> "none", key |-> <<>>, st |-> "ok"]
NoRes == [op |-> "none", key |-> <<>>, key2 |-> <<>>, st |-> "ok", value |-> <<>>, results |-> <<>>]

Put(f, k, v) == [x \in DOMAIN f \cup {k} |-> IF x = k THEN v ELSE f[x]]
Drop(f, k) == [x \in DOMAIN f \ {k} |-> f[x]]
EmptyMap == [x \in {} |-> <<>>]

Alive == res.st # "panic"

TreeInit ==
    /\ tree = CreateNewTree(NewPageManager(<<>>))
    /\ kv = EmptyMap
    /\ snap = [k \in Keys |-> [st |-> "err", value |-> <<>>]]
    /\ last = NoCall
    /\ last2 = NoCall
    /\ res = NoRes
    /\ ops = 0

TInsert(k, v) ==
    /\ Alive /\ ops < MaxOps
    /\ LET r == TreeInsert(tree, k, v)
       IN  /\ tree' = r.t
           /\ kv' = IF r.st = "ok" THEN Put(kv, k, v) ELSE kv
           /\ res' = [NoRes EXCEPT !.op = "Insert", !.key = k, !.value = v, !.st = r.st]
           /\ last' = [op |-> "Insert", key |-> k, st |-> r.st]
    /\ snap' = [x \in Keys |-> TreeGet(tree, x)]
    /\ last2' = last
    /\ ops' = ops + 1

TDelete(k) ==
    /\ Alive /\ ops < MaxOps
    /\ LET r == TreeDelete(tree, k)
       IN  /\ tree' = r.t
           /\ kv' = IF r.st = "ok" THEN Drop(kv, k) ELSE kv
           /\ res' = [NoRes EXCEPT !.op = "Delete", !.key = k, !.st = r.st]
           /\ last' = [op |-> "Delete", key |-> k, st |-> r.st]
    /\ last2' = last
    /\ ops' = ops + 1
    /\ UNCHANGED snap

TGet(k) ==
    /\ Alive
    /\ LET r == TreeGet(tree, k)
       IN  res' = [NoRes EXCEPT !.op = "Get", !.key = k, !.st = r.st, !.value = r.value]
    /\ UNCHANGED <<tree, kv, snap, last, last2, ops>>

TFindRange(lo, hi) ==
    /\ Alive
    /\ BytesCompare(lo, hi) <= 0
    /\ LET r == TreeFindRange(tree, lo, hi)
       IN  res' = [NoRes EXCEPT !.op = "FindRange", !.key = lo, !.key2 = hi,
                                !.st = r.st, !.results = r.results]
    /\ UNCHANGED <<tree, kv, snap, last, last2, ops>>

\* Insert of a key that is not stored (SpecGrow: a tree that only grows)
GrowKeys == {<<k>> : k \in 1..MaxGrowKey}

\* Insert of a key the tree does not hold, with a value of SpecCapacity
CInsert(k, v) == k \notin DOMAIN kv /\ TInsert(k, v)

TInsertNew(k) ==
    /\ Alive
    /\ k \notin DOMAIN kv
    /\ LET r == TreeInsert(tree, k, <<0>>)
       IN  /\ tree' = r.t
           /\ kv' = IF r.st = "ok" THEN Put(kv, k, <<0>>) ELSE kv
           /\ res' = [NoRes EXCEPT !.op = "Insert", !.key = k, !.value = <<0>>, !.st = r.st]
           /\ last' = [op |-> "Insert", key |-> k, st |-> r.st]
    /\ last2' = last
    /\ ops' = ops + 1
    /\ UNCHANGED snap

\* ------------------------------------------------------ claims on SpecTree
\* the least key of a non-empty set of byte strings under bytes.Compare
MinKey(S) == CHOOSE k \in S : \A x \in S : BytesCompare(k, x) <= 0

RECURSIVE Ascending(_)
Ascending(S) == IF S = {} THEN <<>> ELSE <<MinKey(S)>> \o Ascending(S \ {MinKey(S)})

\* the values FindRange(lo, hi) has to return for the map f
RangeOf(f, lo, hi) ==
    LET ks == Ascending({k \in DOMAIN f : BytesCompare(lo, k) <= 0 /\ BytesCompare(k, hi) <= 0})
    IN  [i \in 1..Len(ks) |-> f[ks[i]]]

\* C1: after any sequence of Insert/Delete calls that returned without error,
\* Get(k) of a key inserted and not deleted since returns the value of the
\* last Insert(k, v).
C1_GetReturnsLastInserted ==
    (res.op = "Get" /\ res.key \in DOMAIN kv) => (res.st = "ok" /\ res.value = kv[res.key])

\* C2: FindRange(lo, hi), lo <= hi, returns the values of exactly the present
\* keys in [lo, hi], each once, in ascending key order.
C2_FindRangeExact ==
    res.op = "FindRange" => (res.st = "ok" /\ res.results = RangeOf(kv, res.key, res.key2))

\* C4: after Insert(k, v) and then Delete(k) both returned without error,
\* Get(k) returns "key not found" and every other key maps to the value it
\* had before the Insert.
C4_InsertDeleteGet ==
    (last.op = "Delete" /\ last.st = "ok" /\ last2.op = "Insert" /\ last2.st = "ok"
        /\ last2.key = last.key)
    => /\ TreeGet(tree, last.key).st = "err"
       /\ \A k \in Keys \ {last.key} : TreeGet(tree, k) = snap[k]

\* ------------------------------------------------------------ values and types
TypeNull == 0
TypeInt == 1
TypeFloat == 2
TypeString == 3
TypeBool == 4

ConstraintNone == 0
ConstraintNotNull == 1
ConstraintUnique == 2
ConstraintPrimaryKey == 3

\* A parser.Value is [type, i, s, b]: i the int64 of an IntValue, s the bytes of
\* a StringValue, b the flag of a BoolValue.  A FloatValue keeps in s the text
\* fmt's %g gives for its float64 (the shortest text that reads back as the same
\* float64, so two FloatValues are equal iff their texts are) and in i the
\* truncation int64(value).
NewIntValue(n) == [type |-> TypeInt, i |-> n, s |-> <<>>, b |-> FALSE]
NewStringValue(str) == [type |-> TypeString, i |-> 0, s |-> str, b |-> FALSE]
NewBoolValue(f) == [type |-> TypeBool, i |-> 0, s |-> <<>>, b |-> f]
NewFloatValue(t, g) == [type |-> TypeFloat, i |-> t, s |-> g, b |-> FALSE]
NewNullValue == [type |-> TypeNull, i |-> 0, s |-> <<>>, b |-> FALSE]

RECURSIVE Digits(_)
Digits(n) == IF n < 10 THEN <<48 + n>> ELSE Digits(n \div 10) \o <<48 + (n % 10)>>

\* fmt.Sprintf("%d", n)
FormatInt(n) == IF n < 0 THEN <<45>> \o Digits(0 - n) ELSE Digits(n)

\* strconv.FormatBool
FormatBool(f) == IF f THEN <<116, 114, 117, 101>> ELSE <<102, 97, 108, 115, 101>>

\* the texts strconv.ParseBool reads as true: 1 t T TRUE true True
ParseBoolTrue ==
    {<<49>>, <<116>>, <<84>>, <<84, 82, 85, 69>>, <<116, 114, 117, 101>>, <<84, 114, 117, 101>>}

\* Value.AsInt, the error dropped as the callers drop it.  The strings of the
\* model hold no digits, so strconv.ParseInt fails on them and gives 0.
AsInt(v) ==
    IF v.type = TypeInt \/ v.type = TypeFloat THEN v.i
    ELSE IF v.type = TypeBool THEN (IF v.b THEN 1 ELSE 0)
    ELSE 0

\* Value.AsString
AsString(v) ==
    IF v.type = TypeInt THEN FormatInt(v.i)
    ELSE IF v.type = TypeBool THEN FormatBool(v.b)
    ELSE IF v.type = TypeNull THEN <<78, 85, 76, 76>>
    ELSE v.s

\* Value.AsBool, the error dropped
AsBool(v) ==
    IF v.type = TypeInt THEN v.i # 0
    ELSE IF v.type = TypeBool THEN v.b
    ELSE IF v.type = TypeFloat THEN v.s \notin {<<48>>, <<45, 48>>}
    ELSE IF v.type = TypeString THEN v.s \in ParseBoolTrue
    ELSE FALSE

\* fmt.Sprintf("%v", value): the value's String()
ValueString(v) ==
    IF v.type = TypeString THEN <<39>> \o v.s \o <<39>> ELSE AsString(v)

\* byte i (0 = least significant) of uint64(n) for an int64 n with |n| < 2^31
Uint64Byte(n, i) ==
    IF i >= 4 THEN (IF n < 0 THEN 255 ELSE 0)
    ELSE LET p == IF i = 0 THEN 1 ELSE IF i = 1 THEN 256 ELSE IF i = 2 THEN 65536 ELSE 16777216
         IN  IF n >= 0 THEN (n \div p) % 256
             ELSE 255 - ((((0 - n) - 1) \div p) % 256)

\* binary.LittleEndian.PutUint64(intBytes, uint64(intVal))
PutUint64(n) == [k \in 1..8 |-> Uint64Byte(n, k - 1)]

\* the 4 length bytes binary.LittleEndian.PutUint32(lenBytes, uint32(n)) for n < 2^16
LenBytes(n) == <<n % 256, (n \div 256) % 256, 0, 0>>

Sign(x) == IF x < 0 THEN 0 - 1 ELSE IF x > 0 THEN 1 ELSE 0

\* -------------------------------------------------------------- row-id codec
\* A CompositeRowID is [values, types], two sequences of equal length.
NewCompositeRowID(values, types) == [values |-> values, types |-> types]

\* the bytes CompositeRowID.Bytes appends for component i
ComponentBytes(c, i) ==
    <<c.types[i]>> \o
    (IF c.types[i] = TypeInt THEN PutUint64(AsInt(c.values[i]))
     ELSE IF c.types[i] = TypeString
          THEN LenBytes(Len(AsString(c.values[i]))) \o AsString(c.values[i])
     ELSE IF c.types[i] = TypeBool THEN (IF AsBool(c.values[i]) THEN <<1>> ELSE <<0>>)
     ELSE <<>>)

RECURSIVE AppendComponents(_, _, _)
AppendComponents(c, i, result) ==
    IF i > Len(c.values) THEN result
    ELSE AppendComponents(c, i + 1, result \o ComponentBytes(c, i))

\* CompositeRowID.Bytes
Bytes(c) == AppendComponents(c, 1, <<Len(c.values) % 256>>)

\* the comparison CompositeRowID.Compare makes of component i
CompareComponent(c, comp, i) ==
    IF c.types[i] = TypeInt
    THEN (IF AsInt(c.values[i]) < AsInt(comp.values[i]) THEN 0 - 1
          ELSE IF AsInt(c.values[i]) > AsInt(comp.values[i]) THEN 1 ELSE 0)
    ELSE IF c.types[i] = TypeString
    THEN BytesCompare(AsString(c.values[i]), AsString(comp.values[i]))
    ELSE IF c.types[i] = TypeBool
    THEN (IF ~AsBool(c.values[i]) /\ AsBool(comp.values[i]) THEN 0 - 1
          ELSE IF AsBool(c.values[i]) /\ ~AsBool(comp.values[i]) THEN 1 ELSE 0)
    ELSE BytesCompare(ValueString(c.values[i]), ValueString(comp.values[i]))

RECURSIVE CompareFrom(_, _, _)
CompareFrom(c, comp, i) ==
    IF i > Len(c.values) THEN 0
    ELSE IF CompareComponent(c, comp, i) # 0 THEN CompareComponent(c, comp, i)
    ELSE CompareFrom(c, comp, i + 1)

\* CompositeRowID.Compare with another CompositeRowID
Compare(c, comp) ==
    IF Len(c.values) # Len(comp.values) THEN Len(c.values) - Len(comp.values)
    ELSE CompareFrom(c, comp, 1)

\* int64(binary.LittleEndian.Uint64(b)) of the 8 bytes b, from byte k down
RECURSIVE Int64From(_, _, _)
Int64From(b, k, acc) ==
    IF k = 0 THEN (IF b[8] >= 128 THEN (0 - acc) - 1 ELSE acc)
    ELSE Int64From(b, k - 1, 256 * acc + (IF b[8] >= 128 THEN 255 - b[k] ELSE b[k]))
Int64(b) == Int64From(b, 8, 0)

\* what FromBytes returns with an error
NoRowID == [st |-> "err", id |-> [values |-> <<>>, types |-> <<>>]]

\* the loop of FromBytes at component i, offset bytes of data read: [st, id]
RECURSIVE ReadComponents(_, _, _, _, _, _)
ReadComponents(data, i, count, offset, values, typesList) ==
    IF i >= count THEN [st |-> "ok", id |-> [values |-> values, types |-> typesList]]
    ELSE IF offset >= Len(data) THEN NoRowID
    ELSE IF data[offset + 1] = TypeInt
    THEN (IF offset + 1 + 8 > Len(data) THEN NoRowID
          ELSE ReadComponents(data, i + 1, count, offset + 9,
                              Append(values, NewIntValue(Int64(SubSeq(data, offset + 2, offset + 9)))),
                              Append(typesList, TypeInt)))
    ELSE IF data[offset + 1] = TypeString
    THEN (IF offset + 1 + 4 > Len(data) THEN NoRowID
          ELSE IF offset + 5 + Uint32(data, offset + 1) > Len(data) THEN NoRowID
          ELSE ReadComponents(data, i + 1, count, offset + 5 + Uint32(data, offset + 1),
                              Append(values,
                                     NewStringValue(SubSeq(data, offset + 6,
                                                           offset + 5 + Uint32(data, offset + 1)))),
                              Append(typesList, TypeString)))
    ELSE IF data[offset + 1] = TypeBool
    THEN (IF offset + 1 >= Len(data) THEN NoRowID
          ELSE ReadComponents(data, i + 1, count, offset + 2,
                              Append(values, NewBoolValue(data[offset + 2] # 0)),
                              Append(typesList, TypeBool)))
    ELSE NoRowID

\* FromBytes
FromBytes(data) ==
    IF Len(data) < 1 THEN NoRowID
    ELSE ReadComponents(data, 0, data[1], 1, <<>>, <<>>)

\* ------------------------------------------------------------ schemas and rows
\* A table schema is [name, columns], a column [name, type, constraints]; column
\* and table names are byte strings.  A row (map[string]parser.Value) is a
\* function from column names to values.
Column(name, type, constraints) == [name |-> name, type |-> type, constraints |-> constraints]

EmptyRow == [x \in {} |-> NewNullValue]

\* a column carries ConstraintPrimaryKey
IsPrimaryKey(col) == \E k \in 1..Len(col.constraints) : col.constraints[k] = ConstraintPrimaryKey

getPrimaryKeyColumns(schema) ==
    LET pk == SelectSeq(schema.columns, IsPrimaryKey)
    IN  [k \in 1..Len(pk) |-> pk[k].name]

\* serializeCompositePrimaryKey: [st, bytes]
serializeCompositePrimaryKey(values, primaryKey) ==
    IF \E k \in 1..Len(primaryKey) : primaryKey[k] \notin DOMAIN values
    THEN [st |-> "err", bytes |-> <<>>]
    ELSE [st |-> "ok",
          bytes |-> Bytes(NewCompositeRowID(
                        [k \in 1..Len(primaryKey) |-> values[primaryKey[k]]],
                        [k \in 1..Len(primaryKey) |-> values[primaryKey[k]].type]))]

\* the keys of a map in the order encoding/json writes them
RECURSIVE SortedKeys(_)
SortedKeys(S) ==
    IF S = {} THEN <<>>
    ELSE LET m == CHOOSE k \in S : \A x \in S : BytesCompare(k, x) <= 0
         IN  <<m>> \o SortedKeys(S \ {m})

\* json.Marshal of the members of a map whose values are pointers to structs
\* without exported fields (every parser.Value): "name":{} joined by commas
RECURSIVE MarshalMembers(_)
MarshalMembers(names) ==
    IF names = <<>> THEN <<>>
    ELSE <<34>> \o names[1] \o <<34, 58, 123, 125>> \o
         (IF Len(names) > 1 THEN <<44>> ELSE <<>>) \o MarshalMembers(Tail(names))

\* serializeRow: json.Marshal(values)
serializeRow(values) == <<123>> \o MarshalMembers(SortedKeys(DOMAIN values)) \o <<125>>

\* deserializeRow: json.Unmarshal(data, &map[string]parser.Value).  "{}" and
\* "null" decode to a row without columns; a member whose value is an object
\* cannot be stored in the interface parser.Value (UnmarshalTypeError), and any
\* other text the tree can hold is not a JSON object of nulls either.
deserializeRow(data) ==
    IF data = <<123, 125>> \/ data = <<110, 117, 108, 108>>
    THEN [st |-> "ok", row |-> EmptyRow]
    ELSE [st |-> "err", row |-> EmptyRow]

\* createRowID: [st, bytes]
createRowID(values, schema) ==
    IF Len(getPrimaryKeyColumns(schema)) > 0
    THEN serializeCompositePrimaryKey(values, getPrimaryKeyColumns(schema))
    ELSE [st |-> "ok", bytes |-> serializeRow(values)]

\* ================================================================ SpecRowID
\* createRowID and CompositeRowID.Compare applied to two rows of one table
\* whose primary key has 1..MaxPKLen columns.
MaxPKLen == 2

IntVals == {NewIntValue(n) : n \in {0 - 1, 1, 256}}
StringVals == {NewStringValue(<<97>>), NewStringValue(<<98>>)}
BoolVals == {NewBoolValue(FALSE), NewBoolValue(TRUE)}
\* the float64 values 1.5 and 2.5
FloatVals == {NewFloatValue(1, <<49, 46, 53>>), NewFloatValue(2, <<50, 46, 53>>)}
PKValues == IntVals \cup StringVals \cup BoolVals \cup FloatVals

\* the k-th primary-key column is named "a", "b", ...
PKColName(k) == <<96 + k>>
PKSchema(tuple) ==
    [name |-> <<116>>,
     columns |-> [k \in 1..Len(tuple) |->
                    Column(PKColName(k), tuple[k].type, <<ConstraintPrimaryKey>>)]]
PKRow(tuple) == [c \in {PKColName(k) : k \in 1..Len(tuple)} |-> tuple[c[1] - 96]]
\* the CompositeRowID serializeCompositePrimaryKey builds for a row
RowIDOf(row, schema) ==
    LET pk == getPrimaryKeyColumns(schema)
    IN  NewCompositeRowID([k \in 1..Len(pk) |-> row[pk[k]]],
                          [k \in 1..Len(pk) |-> row[pk[k]].type])

VARIABLES
    pkSchema,  \* the table's schema
    rowA,      \* two rows of the table
    rowB,
    idA,       \* what createRowID returned for them: [st, bytes]
    idB,
    cmp,       \* [st, bytes, ids]: the signs of bytes.Compare and of Compare
    dec        \* what FromBytes returned for the bytes of idA: [st, id]

rowidVars == <<pkSchema, rowA, rowB, idA, idB, cmp, dec>>

NoID == [st |-> "none", bytes |-> <<>>]
NoCmp == [st |-> "none", bytes |-> 0, ids |-> 0]
NoDec == [NoRowID EXCEPT !.st = "none"]

RowIDInit ==
    /\ \E n \in 1..MaxPKLen :
         \E tA \in [1..n -> PKValues], tB \in [1..n -> PKValues] :
            /\ pkSchema = PKSchema(tA)
            /\ rowA = PKRow(tA)
            /\ rowB = PKRow(tB)
    /\ idA = NoID
    /\ idB = NoID
    /\ cmp = NoCmp
    /\ dec = NoDec

RCreateRowID ==
    /\ idA.st = "none"
    /\ idA' = createRowID(rowA, pkSchema)
    /\ idB' = createRowID(rowB, pkSchema)
    /\ UNCHANGED <<pkSchema, rowA, rowB, cmp, dec>>

RCompare ==
    /\ idA.st = "ok" /\ idB.st = "ok" /\ cmp.st = "none"
    /\ cmp' = [st |-> "ok",
               bytes |-> Sign(BytesCompare(idA.bytes, idB.bytes)),
               ids |-> Sign(Compare(RowIDOf(rowA, pkSchema), RowIDOf(rowB, pkSchema)))]
    /\ UNCHANGED <<pkSchema, rowA, rowB, idA, idB, dec>>

RFromBytes ==
    /\ idA.st = "ok" /\ dec.st = "none"
    /\ dec' = FromBytes(idA.bytes)
    /\ UNCHANGED <<pkSchema, rowA, rowB, idA, idB, cmp>>


\* ------------------------------------------------------ claims on SpecRowID
\* C9: two rows whose primary-key tuples differ get different row-id bytes
\* from createRowID, whatever the types (Int, Float, String, Bool) and the
\* number of the primary-key columns.
C9_DistinctRowIDs ==
    (idA.st = "ok" /\ idB.st = "ok" /\ rowA # rowB) => idA.bytes # idB.bytes

\* C10: for the row-ids of two rows of a table with a single Int primary key,
\* bytes.Compare of the encodings has the sign of CompositeRowID.Compare (so
\* the leaf order of the tree is the numeric order of the ids).
C10_BytesOrderIsNumericOrder ==
    (cmp.st = "ok" /\ Len(pkSchema.columns) = 1
        /\ rowA[PKColName(1)].type = TypeInt /\ rowB[PKColName(1)].type = TypeInt)
    => cmp.bytes = cmp.ids

\* ============================================================== DiskStorage
\* ds = [pageManager |-> the catalog's page manager,
\*       tables |-> table name -> [Schema, IndexTree, RootPageID]]
\* files = [catalog |-> pages of catalog.json, tables |-> name -> pages of
\* <name>.db], a file being the sequence of its pages.  Every page a page
\* manager holds is in its cache and every write marks its page dirty, so a
\* flush makes the file equal to the cached pages; the file image is kept up to
\* date at the flushes.

\* json.Marshal(table.Schema): a pointer to a struct without exported fields
MarshalSchema(schema) == <<123, 125>>

\* json.Unmarshal(schemaJSON, &schema) into the interface catalog.TableSchema:
\* only the text null can be stored
UnmarshalSchema(data) == IF data = <<110, 117, 108, 108>> THEN "ok" ELSE "err"

\* what a nil catalog.TableSchema stands for
NilSchema == [name |-> <<>>, columns |-> <<>>]

FileOf(files, tableName) ==
    IF tableName \in DOMAIN files.tables THEN files.tables[tableName] ELSE <<>>

\* NewBPlusTree on pages read from disk (not dirty): [st, t]
NewBPlusTree(pm, rootPageID) ==
    IF ~GetPageOk(pm, rootPageID) THEN [st |-> "err", t |-> [pm |-> pm, rootPageID |-> rootPageID]]
    ELSE [st |-> "ok", t |-> [pm |-> pm, rootPageID |-> rootPageID]]

\* the write loop of saveCatalog: [ok, data]
RECURSIVE WriteCatalogEntries(_, _, _, _)
WriteCatalogEntries(data, offset, names, tables) ==
    IF names = <<>> THEN [ok |-> TRUE, data |-> data]
    ELSE LET tableName == names[1]
             schemaJSON == MarshalSchema(tables[tableName].Schema)
             o1 == offset + 4
             o2 == o1 + Len(tableName)
             o3 == o2 + 4
             o4 == o3 + 4
             o5 == o4 + Len(schemaJSON)
         IN  IF ~InRange(offset, o1) \/ ~InRange(o1, o2) \/ ~InRange(o2, o3)
                  \/ ~InRange(o3, o4) \/ ~InRange(o4, o5)
             THEN [ok |-> FALSE, data |-> data]
             ELSE WriteCatalogEntries(
                      CopyAt(PutUint32(PutUint32(CopyAt(PutUint32(data, offset, Len(tableName)),
                                                        o1, tableName),
                                                 o2, tables[tableName].RootPageID),
                                       o3, Len(schemaJSON)),
                             o4, schemaJSON),
                      o5, Tail(names), tables)

\* saveCatalog: [st, count, ds, files].  a is the catalog page (page 1, got
\* or allocated), w what the write loop returned; the FlushAllPages that ends
\* saveCatalog makes the catalog file equal to the cached pages.
FlushCatalog(ds, files, a, w) ==
    IF ~w.ok THEN [st |-> "panic", count |-> 0, ds |-> ds, files |-> files]
    ELSE [st |-> "ok", count |-> 0,
          ds |-> [ds EXCEPT !.pageManager = [a.pm EXCEPT !.pages[a.id + 1] = w.data]],
          files |-> [files EXCEPT !.catalog = [a.pm.pages EXCEPT ![a.id + 1] = w.data]]]

\* The tables are written in the order of their names (Go leaves the order of
\* a map open; the model has one table name).
WriteCatalog(ds, files, a) ==
    FlushCatalog(ds, files, a,
                 WriteCatalogEntries(PutUint32(a.pm.pages[a.id + 1], 0,
                                               Cardinality(DOMAIN ds.tables)),
                                     4, SortedKeys(DOMAIN ds.tables), ds.tables))

saveCatalog(ds, files) ==
    WriteCatalog(ds, files,
                 IF GetPageOk(ds.pageManager, 1) THEN [id |-> 1, pm |-> ds.pageManager]
                 ELSE AllocatePage(ds.pageManager))

\* the read loop of loadCatalog: [st, tables]
RECURSIVE LoadTables(_, _, _, _, _, _)
LoadTables(data, offset, i, numTables, files, tables) ==
    IF i = numTables THEN [st |-> "ok", tables |-> tables]
    ELSE IF ~InRange(offset, offset + 4) THEN [st |-> "panic", tables |-> tables]
    ELSE LET o1 == offset + 4
             o2 == o1 + Uint32(data, offset)
             o3 == o2 + 4
             o4 == o3 + 4
         IN  IF ~InRange(o1, o2) \/ ~InRange(o2, o3) \/ ~InRange(o3, o4)
                  \/ ~InRange(o4, o4 + Uint32(data, o3))
             THEN [st |-> "panic", tables |-> tables]
             ELSE LET tableName == Slice(data, o1, o2)
                      rootPageID == Uint32(data, o2)
                      o5 == o4 + Uint32(data, o3)
                      tr == NewBPlusTree(NewPageManager(FileOf(files, tableName)), rootPageID)
                  IN  IF UnmarshalSchema(Slice(data, o4, o5)) = "err" \/ tr.st # "ok"
                      THEN [st |-> "err", tables |-> tables]
                      ELSE LoadTables(data, o5, i + 1, numTables, files,
                               [n \in DOMAIN tables \cup {tableName} |->
                                   IF n = tableName
                                   THEN [Schema |-> NilSchema, IndexTree |-> tr.t,
                                         RootPageID |-> rootPageID]
                                   ELSE tables[n]])

NoTables == [n \in {} |-> [Schema |-> NilSchema, RootPageID |-> 0,
                           IndexTree |-> [pm |-> NewPageManager(<<>>), rootPageID |-> 0]]]

\* loadCatalog: [st, tables]
loadCatalog(pm, files) ==
    IF NumPages(pm) <= 1 THEN [st |-> "ok", tables |-> NoTables]
    ELSE LoadTables(pm.pages[2], 4, 0, Uint32(pm.pages[2], 0), files, NoTables)

\* NewDiskStorage on the directory holding files: [st, ds]
NewDiskStorage(files) ==
    LET pm == NewPageManager(files.catalog)
        l == loadCatalog(pm, files)
    IN  [st |-> l.st, ds |-> [pageManager |-> pm, tables |-> l.tables]]
\* a storage.FilterFunc: nil / always true, or "column col equals val"
AllRows == [kind |-> "all", col |-> <<>>, val |-> NewNullValue]
ColumnEquals(col, val) == [kind |-> "eq", col |-> col, val |-> val]
Match(condition, row) ==
    condition.kind = "all" \/ (condition.col \in DOMAIN row /\ row[condition.col] = condition.val)

\* for key, value := range values { row[key] = value }
Merge(row, values) ==
    [c \in DOMAIN row \cup DOMAIN values |-> IF c \in DOMAIN values THEN values[c] ELSE row[c]]

\* the projection loadRows makes when columns are given
Project(row, columns) ==
    IF Len(columns) = 0 THEN row
    ELSE [c \in {columns[k] : k \in 1..Len(columns)} \cap DOMAIN row |-> row[c]]

PutTable(tables, tableName, info) ==
    [n \in DOMAIN tables \cup {tableName} |-> IF n = tableName THEN info ELSE tables[n]]
SetTree(ds, tableName, t) == [ds EXCEPT !.tables[tableName].IndexTree = t]

\* the TableInfo of a new table with the tree CreateNewTree returned
NewTableInfo(schema, tree0) ==
    [Schema |-> schema, IndexTree |-> tree0, RootPageID |-> tree0.rootPageID]

\* DiskStorage.CreateTable: [st, count, ds, files]
DiskCreateTable(ds, files, tableName, schema) ==
    IF tableName \in DOMAIN ds.tables THEN [st |-> "err", count |-> 0, ds |-> ds, files |-> files]
    ELSE saveCatalog(
             [ds EXCEPT !.tables =
                 PutTable(ds.tables, tableName,
                          NewTableInfo(schema,
                                       CreateNewTree(NewPageManager(FileOf(files, tableName)))))],
             files)

\* DiskStorage.DropTable: [st, count, ds, files]
DiskDropTable(ds, files, tableName) ==
    IF tableName \notin DOMAIN ds.tables THEN [st |-> "err", count |-> 0, ds |-> ds, files |-> files]
    ELSE saveCatalog(
             [ds EXCEPT !.tables = [n \in DOMAIN ds.tables \ {tableName} |-> ds.tables[n]]],
             [files EXCEPT !.tables = [n \in DOMAIN files.tables \ {tableName} |-> files.tables[n]]])

\* the results of the DiskStorage calls are [st, count, ds, files]
Done(st, count, ds, files) == [st |-> st, count |-> count, ds |-> ds, files |-> files]
\* the call ends with what the tree operation r returned
TreeDone(r, count, ds, files, tableName) == Done(r.st, count, SetTree(ds, tableName, r.t), files)
\* the call ends with what its row loop u = [st, count, t] returned
RowsDone(u, ds, files, tableName) == Done(u.st, u.count, SetTree(ds, tableName, u.t), files)

\* DiskStorage.Insert
DiskInsert(ds, files, tableName, values) ==
    IF tableName \notin DOMAIN ds.tables THEN Done("err", 0, ds, files)
    ELSE IF createRowID(values, ds.tables[tableName].Schema).st # "ok"
    THEN Done("err", 0, ds, files)
    ELSE TreeDone(TreeInsert(ds.tables[tableName].IndexTree,
                             createRowID(values, ds.tables[tableName].Schema).bytes,
                             serializeRow(values)),
                  0, ds, files, tableName)

\* the entry loop of loadRows over one leaf: [st, rows, originalRows]
RECURSIVE LoadEntries(_, _, _, _, _, _, _)
LoadEntries(data, offset, n, columns, condition, rows, originalRows) ==
    IF n = 0 THEN [st |-> "ok", rows |-> rows, originalRows |-> originalRows]
    ELSE IF ~InRange(offset, offset + 4) THEN [st |-> "panic", rows |-> <<>>, originalRows |-> <<>>]
    ELSE LET ko == offset + 4
             vo == ko + Uint32(data, offset)
         IN  IF ~InRange(ko, vo) \/ ~InRange(vo, vo + 4)
                  \/ ~InRange(vo + 4, vo + 4 + Uint32(data, vo))
             THEN [st |-> "panic", rows |-> <<>>, originalRows |-> <<>>]
             ELSE LET next == vo + 4 + Uint32(data, vo)
                      r == deserializeRow(Slice(data, vo + 4, next))
                  IN  IF r.st # "ok" THEN [st |-> "err", rows |-> <<>>, originalRows |-> <<>>]
                      ELSE IF ~Match(condition, r.row)
                      THEN LoadEntries(data, next, n - 1, columns, condition, rows, originalRows)
                      ELSE LoadEntries(data, next, n - 1, columns, condition,
                                       Append(rows, Project(r.row, columns)),
                                       Append(originalRows, r.row))

\* the walk of loadRows along the leaf chain; e is what the entry loop
\* returned for the leaf data
RECURSIVE LoadLeaves(_, _, _, _, _, _)
RECURSIVE LoadNextLeaf(_, _, _, _, _)
LoadNextLeaf(e, t, data, columns, condition) ==
    IF e.st # "ok" THEN e
    ELSE LoadLeaves(t, Uint32(data, 5), columns, condition, e.rows, e.originalRows)

LoadLeaves(t, leafNodeID, columns, condition, rows, originalRows) ==
    IF leafNodeID = 0 THEN [st |-> "ok", rows |-> rows, originalRows |-> originalRows]
    ELSE IF ~GetPageOk(t.pm, leafNodeID) \/ Data(t, leafNodeID)[1] # NodeTypeLeaf
    THEN [st |-> "err", rows |-> <<>>, originalRows |-> <<>>]
    ELSE LoadNextLeaf(LoadEntries(Data(t, leafNodeID), NodeHeaderSize,
                                  Uint32(Data(t, leafNodeID), 1), columns, condition,
                                  rows, originalRows),
                      t, Data(t, leafNodeID), columns, condition)

\* DiskRowIterator.loadRows
LoadFrom(t, l, columns, condition) ==
    IF l.st # "ok" THEN [st |-> l.st, rows |-> <<>>, originalRows |-> <<>>]
    ELSE LoadLeaves(t, l.id, columns, condition, <<>>, <<>>)
loadRows(t, columns, condition) ==
    LoadFrom(t, findLeafNode(t, t.rootPageID, <<0>>), columns, condition)

\* DiskStorage.Select: [st, rows, originalRows]
DiskSelect(ds, tableName, columns, condition) ==
    IF tableName \notin DOMAIN ds.tables
    THEN [st |-> "err", rows |-> <<>>, originalRows |-> <<>>]
    ELSE loadRows(ds.tables[tableName].IndexTree, columns, condition)

\* The row loop of DiskStorage.Update over the rows of the iterator, from row
\* k on: [st, count, t].  iter.Row() hands out the map that is also
\* iter.originalRow, so after row[key] = value the old row-id (oldRowID) is
\* computed from the updated map, like the new one (newRowID).
RECURSIVE UpdateRows(_, _, _, _, _, _, _)
RECURSIVE UpdateInsert(_, _, _, _, _, _, _, _)
RECURSIVE UpdateNext(_, _, _, _, _, _, _)

\* row is the updated map; del is what IndexTree.Delete(oldRowID) returned
UpdateInsert(del, schema, rows, k, values, condition, count, row) ==
    IF del.st # "ok" THEN [st |-> del.st, count |-> count, t |-> del.t]
    ELSE UpdateNext(TreeInsert(del.t, createRowID(row, schema).bytes, serializeRow(row)),
                    schema, rows, k, values, condition, count)

\* ins is what IndexTree.Insert(newRowID, rowData) returned
UpdateNext(ins, schema, rows, k, values, condition, count) ==
    IF ins.st # "ok" THEN [st |-> ins.st, count |-> count, t |-> ins.t]
    ELSE UpdateRows(ins.t, schema, rows, k + 1, values, condition, count + 1)

UpdateRows(t, schema, rows, k, values, condition, count) ==
    IF k > Len(rows) THEN [st |-> "ok", count |-> count, t |-> t]
    ELSE IF ~Match(condition, rows[k])
    THEN UpdateRows(t, schema, rows, k + 1, values, condition, count)
    ELSE IF createRowID(Merge(rows[k], values), schema).st # "ok"
    THEN [st |-> "err", count |-> count, t |-> t]
    ELSE UpdateInsert(TreeDelete(t, createRowID(Merge(rows[k], values), schema).bytes),
                      schema, rows, k, values, condition, count, Merge(rows[k], values))

\* DiskStorage.Update once Select has returned iter
UpdateFrom(iter, ds, files, tableName, values, condition) ==
    IF iter.st # "ok" THEN Done(iter.st, 0, ds, files)
    ELSE RowsDone(UpdateRows(ds.tables[tableName].IndexTree, ds.tables[tableName].Schema,
                             iter.rows, 1, values, condition, 0),
                  ds, files, tableName)

\* DiskStorage.Update
DiskUpdate(ds, files, tableName, values, condition) ==
    IF tableName \notin DOMAIN ds.tables THEN Done("err", 0, ds, files)
    ELSE UpdateFrom(DiskSelect(ds, tableName, <<>>, AllRows), ds, files, tableName,
                    values, condition)

\* the row loop of DiskStorage.Delete, from row k on: [st, count, t]
RECURSIVE DeleteRows(_, _, _, _, _, _)
RECURSIVE DeleteNext(_, _, _, _, _, _)

\* del is what IndexTree.Delete(rowID) returned
DeleteNext(del, schema, rows, k, condition, count) ==
    IF del.st # "ok" THEN [st |-> del.st, count |-> count, t |-> del.t]
    ELSE DeleteRows(del.t, schema, rows, k + 1, condition, count + 1)

DeleteRows(t, schema, rows, k, condition, count) ==
    IF k > Len(rows) THEN [st |-> "ok", count |-> count, t |-> t]
    ELSE IF ~Match(condition, rows[k])
    THEN DeleteRows(t, schema, rows, k + 1, condition, count)
    ELSE IF createRowID(rows[k], schema).st # "ok"
    THEN [st |-> "err", count |-> count, t |-> t]
    ELSE DeleteNext(TreeDelete(t, createRowID(rows[k], schema).bytes),
                    schema, rows, k, condition, count)

\* DiskStorage.Delete once Select has returned iter
DeleteFrom(iter, ds, files, tableName, condition) ==
    IF iter.st # "ok" THEN Done(iter.st, 0, ds, files)
    ELSE RowsDone(DeleteRows(ds.tables[tableName].IndexTree, ds.tables[tableName].Schema,
                             iter.rows, 1, condition, 0),
                  ds, files, tableName)

\* DiskStorage.Delete
DiskDelete(ds, files, tableName, condition) ==
    IF tableName \notin DOMAIN ds.tables THEN Done("err", 0, ds, files)
    ELSE DeleteFrom(DiskSelect(ds, tableName, <<>>, AllRows), ds, files, tableName, condition)

\* the page managers of all tables are closed: their pages are flushed
CloseTables(s, files) ==
    IF s.st # "ok" THEN s
    ELSE [s EXCEPT !.files.tables =
             [n \in DOMAIN files.tables \cup DOMAIN s.ds.tables |->
                 IF n \in DOMAIN s.ds.tables THEN s.ds.tables[n].IndexTree.pm.pages
                 ELSE files.tables[n]]]

\* DiskStorage.Close: saveCatalog, then every page manager is closed
DiskClose(ds, files) == CloseTables(saveCatalog(ds, files), files)
\* ============================================================ MemoryStorage
\* ms = [tables |-> table name -> sequence of rows, schemas |-> name -> schema].
\* Every Insert is given a map of its own (the executor builds one per row).
NewMemoryStorage == [tables |-> [n \in {} |-> <<>>], schemas |-> [n \in {} |-> NilSchema]]

IsNull(val) == val.type = TypeNull
HasConstraint(col, constraint) ==
    \E k \in 1..Len(col.constraints) : col.constraints[k] = constraint
ColumnNames(schema) == {schema.columns[k].name : k \in 1..Len(schema.columns)}
GetColumn(schema, colName) ==
    CHOOSE col \in {schema.columns[k] : k \in 1..Len(schema.columns)} : col.name = colName

\* MemoryStorage.CreateTable: [st, ms]
MemCreateTable(ms, tableName, schema) ==
    IF tableName \in DOMAIN ms.tables THEN [st |-> "err", ms |-> ms]
    ELSE [st |-> "ok",
          ms |-> [tables |-> [n \in DOMAIN ms.tables \cup {tableName} |->
                                 IF n = tableName THEN <<>> ELSE ms.tables[n]],
                  schemas |-> [n \in DOMAIN ms.schemas \cup {tableName} |->
                                 IF n = tableName THEN schema ELSE ms.schemas[n]]]]

\* MemoryStorage.DropTable: [st, ms]
MemDropTable(ms, tableName) ==
    IF tableName \notin DOMAIN ms.tables THEN [st |-> "err", ms |-> ms]
    ELSE [st |-> "ok",
          ms |-> [tables |-> [n \in DOMAIN ms.tables \ {tableName} |-> ms.tables[n]],
                  schemas |-> [n \in DOMAIN ms.schemas \ {tableName} |-> ms.schemas[n]]]]

\* the validation loop of MemoryStorage.Insert finds nothing wrong
InsertValid(schema, values) ==
    \A k \in 1..Len(schema.columns) :
        LET col == schema.columns[k]
            exists == col.name \in DOMAIN values
        IN  /\ HasConstraint(col, ConstraintNotNull)
                 => (exists /\ ~IsNull(values[col.name]))
            /\ (exists /\ ~IsNull(values[col.name])) => values[col.name].type = col.type

\* MemoryStorage.Insert: [st, ms]
MemInsert(ms, tableName, values) ==
    IF tableName \notin DOMAIN ms.tables \/ tableName \notin DOMAIN ms.schemas
         \/ ~InsertValid(ms.schemas[tableName], values)
    THEN [st |-> "err", ms |-> ms]
    ELSE [st |-> "ok", ms |-> [ms EXCEPT !.tables[tableName] = Append(@, values)]]

\* the validation loop of MemoryStorage.Update finds nothing wrong
UpdateValid(schema, values) ==
    \A colName \in DOMAIN values :
        /\ colName \in ColumnNames(schema)
        /\ ~IsNull(values[colName]) => values[colName].type = GetColumn(schema, colName).type
        /\ ~(HasConstraint(GetColumn(schema, colName), ConstraintNotNull) /\ IsNull(values[colName]))

\* MemoryStorage.Update as it would be if its loop assigned the values to
\* every row of the table, whatever the condition says
MemUpdateEveryRow(ms, tableName, values, condition) ==
    IF tableName \notin DOMAIN ms.tables \/ tableName \notin DOMAIN ms.schemas
         \/ ~UpdateValid(ms.schemas[tableName], values)
    THEN [st |-> "err", count |-> 0, ms |-> ms]
    ELSE [st |-> "ok",
          count |-> Cardinality({i \in 1..Len(ms.tables[tableName]) :
                                    Match(condition, ms.tables[tableName][i])}),
          ms |-> [ms EXCEPT !.tables[tableName] =
                    [i \in 1..Len(ms.tables[tableName]) |->
                        Merge(ms.tables[tableName][i], values)]]]

\* MemoryStorage.Update: [st, count, ms]
MemUpdate(ms, tableName, values, condition) ==
    IF tableName \notin DOMAIN ms.tables \/ tableName \notin DOMAIN ms.schemas
         \/ ~UpdateValid(ms.schemas[tableName], values)
    THEN [st |-> "err", count |-> 0, ms |-> ms]
    ELSE LET rows == ms.tables[tableName]
         IN  [st |-> "ok",
              count |-> Cardinality({i \in 1..Len(rows) : Match(condition, rows[i])}),
              ms |-> [ms EXCEPT !.tables[tableName] =
                        [i \in 1..Len(rows) |->
                            IF Match(condition, rows[i]) THEN Merge(rows[i], values)
                            ELSE rows[i]]]]

\* MemoryStorage.Delete as it would be if it counted the matching rows and
\* left s.tables[tableName] as it was
MemDeleteKeepsRows(ms, tableName, condition) ==
    IF tableName \notin DOMAIN ms.tables THEN [st |-> "err", count |-> 0, ms |-> ms]
    ELSE [st |-> "ok",
          count |-> Cardinality({i \in 1..Len(ms.tables[tableName]) :
                                    Match(condition, ms.tables[tableName][i])}),
          ms |-> ms]

\* MemoryStorage.Delete: [st, count, ms]
MemDelete(ms, tableName, condition) ==
    IF tableName \notin DOMAIN ms.tables THEN [st |-> "err", count |-> 0, ms |-> ms]
    ELSE LET rows == ms.tables[tableName]
             NoMatch(row) == ~Match(condition, row)
         IN  [st |-> "ok",
              count |-> Cardinality({i \in 1..Len(rows) : Match(condition, rows[i])}),
              ms |-> [ms EXCEPT !.tables[tableName] = SelectSeq(rows, NoMatch)]]

\* a column the row does not have reads as a nil parser.Value
NilValue == [type |-> 0 - 1, i |-> 0, s |-> <<>>, b |-> FALSE]

\* the columns MemoryStorage.Select copies into a result row: none given means
\* the row itself, "*" alone means all columns of the schema
SelectColumns(schema, columns) ==
    IF Len(columns) = 1 /\ columns[1] = <<42>>
    THEN [k \in 1..Len(schema.columns) |-> schema.columns[k].name]
    ELSE columns

SelectRow(row, columns) ==
    IF Len(columns) = 0 THEN row
    ELSE [c \in {columns[k] : k \in 1..Len(columns)} |->
             IF c \in DOMAIN row THEN row[c] ELSE NilValue]

\* MemoryStorage.Select: [st, rows]
MemSelect(ms, tableName, columns, condition) ==
    IF tableName \notin DOMAIN ms.tables \/ tableName \notin DOMAIN ms.schemas
    THEN [st |-> "err", rows |-> <<>>]
    ELSE IF Len(columns) > 0 /\ columns[1] # <<42>>
              /\ \E k \in 1..Len(columns) : columns[k] \notin ColumnNames(ms.schemas[tableName])
    THEN [st |-> "err", rows |-> <<>>]
    ELSE LET Matches(row) == Match(condition, row)
             sel == SelectSeq(ms.tables[tableName], Matches)
             cols == SelectColumns(ms.schemas[tableName], columns)
         IN  [st |-> "ok", rows |-> [i \in 1..Len(sel) |-> SelectRow(sel[i], cols)]]
\* ============================================================== SpecStorage
\* One Storage, a MemoryStorage or a DiskStorage on an empty directory, driven
\* through the calls of the Storage interface; a DiskStorage is also closed
\* and opened again on its directory.
MaxStoreOps == 5     \* calls other than Select per behaviour

TableT == <<116>>
ColA == <<97>>
ColB == <<98>>
\* t(a INT PRIMARY KEY, b STRING) and t(a INT NOT NULL, b STRING)
SchemaPK ==
    [name |-> TableT,
     columns |-> <<Column(ColA, TypeInt, <<ConstraintPrimaryKey>>), Column(ColB, TypeString, <<>>)>>]
SchemaPlain ==
    [name |-> TableT,
     columns |-> <<Column(ColA, TypeInt, <<ConstraintNotNull>>), Column(ColB, TypeString, <<>>)>>]
Schemas == {SchemaPK, SchemaPlain}

RowA(n) == [c \in {ColA} |-> NewIntValue(n)]
RowAB(n, str) == [c \in {ColA, ColB} |-> IF c = ColA THEN NewIntValue(n) ELSE NewStringValue(str)]
InsertRows == {EmptyRow, RowA(1), RowA(2), RowAB(1, <<120>>), RowAB(2, <<120>>)}
SetValues == {EmptyRow, RowA(2), [c \in {ColB} |-> NewStringValue(<<121>>)]}
Conditions == {AllRows, ColumnEquals(ColA, NewIntValue(1))}
SelectLists == {<<>>, <<ColA>>, <<ColB>>, <<<<42>>>>}

VARIABLES
    impl,      \* "memory" or "disk": the implementation under the interface
    ms,        \* the MemoryStorage
    ds,        \* the DiskStorage
    dopen,     \* "open", "closed" (after Close) or "failed" (NewDiskStorage failed)
    files,     \* the files of the database directory
    sres,      \* the last call and what it returned
    sops       \* calls other than Select so far

storeVars == <<impl, ms, ds, dopen, files, sres, sops>>

NoDS == [pageManager |-> NewPageManager(<<>>), tables |-> NoTables]
NoFiles == [catalog |-> <<>>, tables |-> [n \in {} |-> <<>>]]
NoSRes ==
    [op |-> "none", st |-> "ok", table |-> <<>>, values |-> EmptyRow, condition |-> AllRows,
     columns |-> <<>>, count |-> 0, rows |-> <<>>]

StoreInit ==
    /\ impl \in {"memory", "disk"}
    /\ ms = NewMemoryStorage
    /\ ds = NewDiskStorage(NoFiles).ds
    /\ dopen = "open"
    /\ files = NoFiles
    /\ sres = NoSRes
    /\ sops = 0

MemReady == impl = "memory" /\ sops < MaxStoreOps
DiskReady == impl = "disk" /\ dopen = "open" /\ sres.st # "panic" /\ sops < MaxStoreOps

\* what a call leaves in sres
Returned(op, st, n, values, condition, count) ==
    [NoSRes EXCEPT !.op = op, !.st = st, !.table = n, !.values = values,
                   !.condition = condition, !.count = count]

\* a call of the MemoryStorage returned r = [st, ms]
MemCall(r, op, n, values) ==
    /\ ms' = r.ms
    /\ sres' = Returned(op, r.st, n, values, AllRows, 0)
    /\ sops' = sops + 1
    /\ UNCHANGED <<impl, ds, dopen, files>>

\* Update or Delete of the MemoryStorage returned r = [st, count, ms]
MemCountCall(r, op, n, values, condition) ==
    /\ ms' = r.ms
    /\ sres' = Returned(op, r.st, n, values, condition, r.count)
    /\ sops' = sops + 1
    /\ UNCHANGED <<impl, ds, dopen, files>>

\* a call of the DiskStorage returned r = [st, count, ds, files]
DiskCall(r, op, n, values, condition) ==
    /\ ds' = r.ds
    /\ files' = r.files
    /\ sres' = Returned(op, r.st, n, values, condition, r.count)
    /\ sops' = sops + 1
    /\ UNCHANGED <<impl, ms>>

\* Select returned the iterator r = [st, rows, ...]
SelectCall(r, n, columns, condition) ==
    /\ sres' = [NoSRes EXCEPT !.op = "Select", !.st = r.st, !.table = n,
                              !.columns = columns, !.condition = condition,
                              !.rows = r.rows]
    /\ UNCHANGED <<impl, ms, ds, dopen, files, sops>>

\* NewDiskStorage returned r = [st, ds]
OpenCall(r) ==
    /\ ds' = IF r.st = "ok" THEN r.ds ELSE ds
    /\ dopen' = IF r.st = "ok" THEN "open" ELSE "failed"
    /\ sres' = Returned("Open", r.st, <<>>, EmptyRow, AllRows, 0)
    /\ sops' = sops + 1
    /\ UNCHANGED <<impl, ms, files>>

MCreateTable(n, schema) ==
    MemReady /\ MemCall(MemCreateTable(ms, n, schema), "CreateTable", n, EmptyRow)

MDropTable(n) ==
    MemReady /\ MemCall(MemDropTable(ms, n), "DropTable", n, EmptyRow)

MInsert(n, values) ==
    MemReady /\ MemCall(MemInsert(ms, n, values), "Insert", n, values)

MUpdate(n, values, condition) ==
    MemReady /\ MemCountCall(MemUpdate(ms, n, values, condition), "Update", n, values, condition)

MDelete(n, condition) ==
    MemReady /\ MemCountCall(MemDelete(ms, n, condition), "Delete", n, EmptyRow, condition)

MSelect(n, columns, condition) ==
    impl = "memory" /\ SelectCall(MemSelect(ms, n, columns, condition), n, columns, condition)

DCreateTable(n, schema) ==
    /\ DiskReady
    /\ DiskCall(DiskCreateTable(ds, files, n, schema), "CreateTable", n, EmptyRow, AllRows)
    /\ UNCHANGED dopen

DDropTable(n) ==
    /\ DiskReady
    /\ DiskCall(DiskDropTable(ds, files, n), "DropTable", n, EmptyRow, AllRows)
    /\ UNCHANGED dopen

DInsert(n, values) ==
    /\ DiskReady
    /\ DiskCall(DiskInsert(ds, files, n, values), "Insert", n, values, AllRows)
    /\ UNCHANGED dopen

DUpdate(n, values, condition) ==
    /\ DiskReady
    /\ DiskCall(DiskUpdate(ds, files, n, values, condition), "Update", n, values, condition)
    /\ UNCHANGED dopen

DDelete(n, condition) ==
    /\ DiskReady
    /\ DiskCall(DiskDelete(ds, files, n, condition), "Delete", n, EmptyRow, condition)
    /\ UNCHANGED dopen

DSelect(n, columns, condition) ==
    /\ impl = "disk" /\ dopen = "open" /\ sres.st # "panic"
    /\ SelectCall(DiskSelect(ds, n, columns, condition), n, columns, condition)

DClose ==
    /\ DiskReady
    /\ DiskCall(DiskClose(ds, files), "Close", <<>>, EmptyRow, AllRows)
    /\ dopen' = "closed"

\* NewDiskStorage on the directory of a closed DiskStorage
DOpen ==
    /\ impl = "disk" /\ dopen = "closed" /\ sres.st = "ok" /\ sops < MaxStoreOps
    /\ OpenCall(NewDiskStorage(files))


\* ==================================================================== SpecPM
\* The page manager by itself, with its cache, pin counts, dirty flags and
\* file: mgr = [numPages, freePages, pageCache, file], pageCache a function
\* from the cached page ids to [data, dirty, pinCount], file the sequence of
\* the page images on disk.  Results are [st, id, mgr].
MaxPageID == 2       \* page ids given to FreePage, GetPage and Unpin: 0..MaxPageID
MaxPMOps == 4        \* calls per behaviour of SpecPM

PageIDs == 0..MaxPageID

NewPage(data, dirty, pinCount) == [data |-> data, dirty |-> dirty, pinCount |-> pinCount]

\* pm.pageCache[id] = page
CachePut(cache, id, page) ==
    [p \in DOMAIN cache \cup {id} |-> IF p = id THEN page ELSE cache[p]]
\* delete(pm.pageCache, id)
CacheDelete(cache, id) == [p \in DOMAIN cache \ {id} |-> cache[p]]

\* NewPageManager on a file that does not exist yet, with createHeaderPage
PMNew ==
    [numPages |-> 1,
     freePages |-> <<>>,
     pageCache |-> CachePut(<<>>, 0, NewPage(PutUint32(PutUint32(ZeroPage, 0, 1), 4, 0), TRUE, 1)),
     file |-> <<>>]

\* PageManager.GetPage (with loadPageFromDisk): the page is pinned
PMGetPage(mgr, id) ==
    IF id >= mgr.numPages THEN [st |-> "err", id |-> id, mgr |-> mgr]
    ELSE IF id \in DOMAIN mgr.pageCache
    THEN [st |-> "ok", id |-> id,
          mgr |-> [mgr EXCEPT !.pageCache[id].pinCount = @ + 1]]
    ELSE IF id + 1 > Len(mgr.file) THEN [st |-> "err", id |-> id, mgr |-> mgr]
    ELSE [st |-> "ok", id |-> id,
          mgr |-> [mgr EXCEPT !.pageCache =
                      CachePut(@, id, NewPage(mgr.file[id + 1], FALSE, 1))]]

\* Page.Unpin on the cached page id
PMUnpin(mgr, id) ==
    IF id \notin DOMAIN mgr.pageCache THEN mgr
    ELSE [mgr EXCEPT !.pageCache[id].pinCount = IF @ > 0 THEN @ - 1 ELSE 0]

\* updateFreePageList once GetPage(0) has returned g
PMWriteHeader(g) ==
    IF g.st # "ok" THEN g
    ELSE [g EXCEPT !.mgr.pageCache[0] =
             NewPage(WriteFreeIds(PutUint32(PutUint32(@.data, 0, g.mgr.numPages),
                                            4, Len(g.mgr.freePages)),
                                  g.mgr.freePages, 0),
                     TRUE, @.pinCount)]

\* PageManager.updateFreePageList
PMUpdateFreePageList(mgr) == PMWriteHeader(PMGetPage(mgr, 0))

\* extendFile: the file is truncated to numPages pages (new bytes are zero)
ExtendFile(file, numPages) ==
    [p \in 1..numPages |-> IF p <= Len(file) THEN file[p] ELSE ZeroPage]

\* AllocatePage from the creation of the page struct for pageID on
PMCachePage(mgr, pageID) ==
    [PMUpdateFreePageList([mgr EXCEPT !.pageCache =
                              CachePut(@, pageID, NewPage(ZeroPage, TRUE, 1))])
        EXCEPT !.id = pageID]

\* PageManager.AllocatePage; `truncated` tells whether the Truncate of
\* extendFile succeeds
PMAllocatePage(mgr, truncated) ==
    IF Len(mgr.freePages) > 0
    THEN PMCachePage([mgr EXCEPT !.freePages = SubSeq(@, 1, Len(@) - 1)],
                     mgr.freePages[Len(mgr.freePages)])
    ELSE IF ~truncated
    THEN [st |-> "err", id |-> mgr.numPages,
          mgr |-> [mgr EXCEPT !.numPages = @ + 1]]
    ELSE PMCachePage([mgr EXCEPT !.numPages = @ + 1,
                                 !.file = ExtendFile(@, mgr.numPages + 1)],
                     mgr.numPages)

\* PageManager.FreePage without the test of the pin count
PMFreePageUnpinned(mgr, pageID) ==
    [PMUpdateFreePageList([mgr EXCEPT !.pageCache = CacheDelete(@, pageID),
                                      !.freePages = Append(@, pageID)])
        EXCEPT !.id = pageID]

\* PageManager.FreePage
PMFreePage(mgr, pageID) ==
    IF pageID \in DOMAIN mgr.pageCache /\ mgr.pageCache[pageID].pinCount > 0
    THEN [st |-> "err", id |-> pageID, mgr |-> mgr]
    ELSE [PMUpdateFreePageList([mgr EXCEPT !.pageCache = CacheDelete(@, pageID),
                                           !.freePages = Append(@, pageID)])
             EXCEPT !.id = pageID]

\* pm.file.WriteAt(data, pageID * PageSize) that wrote the first n bytes of
\* data: the file grows to hold the bytes written
WriteAt(file, pageID, data, n) ==
    IF n = 0 THEN file
    ELSE [p \in 1..(IF Len(file) > pageID THEN Len(file) ELSE pageID + 1) |->
            IF p = pageID + 1
            THEN [i \in 1..PageSize |->
                    IF i <= n THEN data[i] ELSE IF p <= Len(file) THEN file[p][i] ELSE 0]
            ELSE IF p <= Len(file) THEN file[p] ELSE ZeroPage]

\* the numbers of bytes a WriteAt that returns an error may have written
FailedWrites == {0, 4}

\* PageManager.FlushPage that marks the page clean before it writes
PMFlushPageCleanFirst(mgr, pageID, written) ==
    IF pageID \notin DOMAIN mgr.pageCache \/ ~mgr.pageCache[pageID].dirty
    THEN [st |-> "ok", id |-> pageID, mgr |-> mgr]
    ELSE IF written < PageSize
    THEN [st |-> "err", id |-> pageID,
          mgr |-> [mgr EXCEPT !.pageCache[pageID].dirty = FALSE,
                              !.file = WriteAt(@, pageID, mgr.pageCache[pageID].data, written)]]
    ELSE [st |-> "ok", id |-> pageID,
          mgr |-> [mgr EXCEPT !.pageCache[pageID].dirty = FALSE,
                              !.file = WriteAt(@, pageID, mgr.pageCache[pageID].data, PageSize)]]

\* PageManager.FlushPage; WriteAt writes `written` bytes and returns an error
\* unless it wrote them all
PMFlushPage(mgr, pageID, written) ==
    IF pageID \notin DOMAIN mgr.pageCache \/ ~mgr.pageCache[pageID].dirty
    THEN [st |-> "ok", id |-> pageID, mgr |-> mgr]
    ELSE IF written < PageSize
    THEN [st |-> "err", id |-> pageID,
          mgr |-> [mgr EXCEPT !.file = WriteAt(@, pageID, mgr.pageCache[pageID].data, written)]]
    ELSE [st |-> "ok", id |-> pageID,
          mgr |-> [mgr EXCEPT !.pageCache[pageID].dirty = FALSE,
                              !.file = WriteAt(@, pageID, mgr.pageCache[pageID].data, PageSize)]]

\* the dirty pages of the cache, which FlushAllPages collects
DirtyPages(mgr) == {p \in DOMAIN mgr.pageCache : mgr.pageCache[p].dirty}

\* PageManager.FlushAllPages, the loop over pagesToFlush (in the order of the map
\* iteration): the pages of `todo` are flushed in some order, then the write
\* of page `failing` fails after `written` bytes (failing = NoPage: no write
\* fails)
NoPage == 0 - 1
RECURSIVE PMFlushAllPages(_, _, _, _)
PMFlushAllPages(mgr, todo, failing, written) ==
    IF todo = {}
    THEN (IF failing = NoPage THEN [st |-> "ok", id |-> 0, mgr |-> mgr]
          ELSE [PMFlushPage(mgr, failing, written) EXCEPT !.id = 0])
    ELSE PMFlushAllPages(PMFlushPage(mgr, CHOOSE p \in todo : TRUE, PageSize).mgr,
                         todo \ {CHOOSE p \in todo : TRUE}, failing, written)

VARIABLES
    pmgr,      \* the page manager
    pres,      \* the last call: [op, st, id]
    pres2,     \* the call before it
    pops       \* calls so far

pmVars == <<pmgr, pres, pres2, pops>>

NoPRes == [op |-> "none", st |-> "ok", id |-> 0]

PMInit ==
    /\ pmgr = PMNew
    /\ pres = NoPRes
    /\ pres2 = NoPRes
    /\ pops = 0

\* a call returned r = [st, id, mgr]
PMCall(r, op) ==
    /\ pmgr' = r.mgr
    /\ pres' = [op |-> op, st |-> r.st, id |-> r.id]
    /\ pres2' = pres
    /\ pops' = pops + 1

\* AllocatePage; the Truncate of extendFile, if it is called, succeeds or fails
PAllocatePage ==
    /\ pops < MaxPMOps
    /\ \E truncated \in BOOLEAN :
          PMCall(PMAllocatePage(pmgr, truncated), "AllocatePage")
PFreePage(id) == pops < MaxPMOps /\ PMCall(PMFreePage(pmgr, id), "FreePage")
PGetPage(id) == pops < MaxPMOps /\ PMCall(PMGetPage(pmgr, id), "GetPage")
\* the holder of a page of the cache gives up a pin
PUnpin(id) ==
    /\ pops < MaxPMOps
    /\ id \in DOMAIN pmgr.pageCache
    /\ PMCall([st |-> "ok", id |-> id, mgr |-> PMUnpin(pmgr, id)], "Unpin")

\* FlushPage(id); the write, if there is one, succeeds or fails
PFlushPage(id) ==
    /\ pops < MaxPMOps
    /\ \E written \in FailedWrites \cup {PageSize} :
          PMCall(PMFlushPage(pmgr, id, written), "FlushPage")

\* FlushAllPages; every write succeeds, or some pages are written and the
\* write of another one fails
PFlushAllPages ==
    /\ pops < MaxPMOps
    /\ \/ PMCall(PMFlushAllPages(pmgr, DirtyPages(pmgr), NoPage, PageSize), "FlushAllPages")
       \/ \E failing \in DirtyPages(pmgr), written \in FailedWrites :
             \E todo \in SUBSET (DirtyPages(pmgr) \ {failing}) :
                PMCall(PMFlushAllPages(pmgr, todo, failing, written), "FlushAllPages")


\* PageManager.Close when every write succeeds: FlushAllPages, then the file
\* is closed
PMClose(mgr) == PMFlushAllPages(mgr, DirtyPages(mgr), NoPage, PageSize)

\* NewPageManager on an existing file once loadFreePageList has read the ids
\* (r = [ok, freePages]); reading past the end of the header page panics
PMLoaded(file, r) ==
    IF ~r.ok
    THEN [st |-> "panic", id |-> 0,
          mgr |-> [numPages |-> Len(file), freePages |-> <<>>,
                   pageCache |-> CachePut(<<>>, 0, NewPage(file[1], FALSE, 1)),
                   file |-> file]]
    ELSE [st |-> "ok", id |-> 0,
          mgr |-> [numPages |-> Uint32(file[1], 0), freePages |-> r.freePages,
                   pageCache |-> CachePut(<<>>, 0, NewPage(file[1], FALSE, 1)),
                   file |-> file]]

\* NewPageManager on the file a closed manager left
PMOpen(file) ==
    IF Len(file) = 0 THEN [st |-> "ok", id |-> 0, mgr |-> PMNew]
    ELSE PMLoaded(file, ReadFreeIds(file[1], 0, Uint32(file[1], 4), <<>>))

\* Close, then NewPageManager on the same file
PMReopen(closed) ==
    IF closed.st # "ok" THEN closed ELSE PMOpen(closed.mgr.file)

\* ---------------------------------------------------------------- SpecHeader
\* The page manager started after some pages were allocated, unpinned and
\* freed, used as its callers are meant to use it (FreePage only on allocated,
\* unpinned pages other than the header), closed and opened again.
MaxFreed == 15       \* pages allocated, and at most as many freed, before the first step
MaxHeaderOps == 2    \* calls per behaviour of SpecHeader

\* n times: p := AllocatePage(); p.Unpin()
RECURSIVE PMAllocateN(_, _)
PMAllocateN(mgr, n) ==
    IF n = 0 THEN mgr
    ELSE PMAllocateN(PMUnpin(PMAllocatePage(mgr, TRUE).mgr, mgr.numPages), n - 1)

\* FreePage(i), FreePage(i + 1), ..., FreePage(f)
RECURSIVE PMFreeUpTo(_, _, _)
PMFreeUpTo(mgr, i, f) ==
    IF i > f THEN mgr ELSE PMFreeUpTo(PMFreePage(mgr, i).mgr, i + 1, f)

HeaderInit ==
    /\ pmgr \in UNION {{PMFreeUpTo(PMAllocateN(PMNew, n), 1, f) : f \in 0..n} :
                        n \in 0..MaxFreed}
    /\ pres = NoPRes
    /\ pres2 = NoPRes
    /\ pops = 0

HeaderReady == pops < MaxHeaderOps /\ pres.st # "panic"

\* AllocatePage whose Truncate succeeds, and Unpin of the page
HAllocatePage ==
    /\ HeaderReady
    /\ PMCall([PMAllocatePage(pmgr, TRUE) EXCEPT
                  !.mgr = PMUnpin(@, IF Len(pmgr.freePages) > 0
                                     THEN pmgr.freePages[Len(pmgr.freePages)]
                                     ELSE pmgr.numPages)],
              "AllocatePage")

\* FreePage of an allocated page that is not pinned
HFreePage(id) ==
    /\ HeaderReady
    /\ id > 0 /\ id < pmgr.numPages
    /\ \A i \in 1..Len(pmgr.freePages) : pmgr.freePages[i] # id
    /\ id \in DOMAIN pmgr.pageCache => pmgr.pageCache[id].pinCount = 0
    /\ PMCall(PMFreePage(pmgr, id), "FreePage")

\* Close, then NewPageManager on the same file
HReopen ==
    /\ HeaderReady
    /\ PMCall(PMReopen(PMClose(pmgr)), "Reopen")


\* ================================================================== SpecLock
\* The locking of the page manager (cacheMutex) and of the DiskStorage (mu)
\* as one caller sees it.  A call is a frame [fn, id, flag, mgr, pc]: the
\* function, its argument, the outcome of its I/O, the object as the function
\* finds it, and the position in LockCode, the sequence of the lock operations
\* and calls of the function (a deferred Unlock comes last).  sync.RWMutex is
\* not reentrant: Lock waits until nobody holds the mutex, RLock until no
\* writer holds it.
VARIABLES
    lstack,    \* the frames of the caller, innermost last
    lmutex     \* mutex name -> [w: write-locked, r: number of read locks]

lockVars == <<lstack, lmutex>>

Mutexes == {"cacheMutex", "mu"}
MutexFree == [w |-> FALSE, r |-> 0]

Frame(fn, id, flag, mgr) == [fn |-> fn, id |-> id, flag |-> flag, mgr |-> mgr, pc |-> 1]
LockOp(k, mu) == [k |-> k, mu |-> mu, fn |-> "", id |-> 0, mgr |-> <<>>]
CallOp(fn, id, mgr) == [k |-> "call", mu |-> "", fn |-> fn, id |-> id, mgr |-> mgr]

\* AllocatePage up to the call of updateFreePageList: the id is taken from the
\* free list or numPages grows, and the page is put in the cache
PMPickPage(mgr) ==
    IF Len(mgr.freePages) > 0
    THEN [mgr EXCEPT !.freePages = SubSeq(@, 1, Len(@) - 1),
                     !.pageCache = CachePut(@, mgr.freePages[Len(mgr.freePages)],
                                            NewPage(ZeroPage, TRUE, 1))]
    ELSE [mgr EXCEPT !.numPages = @ + 1,
                     !.file = ExtendFile(@, mgr.numPages + 1),
                     !.pageCache = CachePut(@, mgr.numPages, NewPage(ZeroPage, TRUE, 1))]

\* the calls of FlushPage that FlushAllPages makes, for the pages of `todo`
RECURSIVE FlushCalls(_, _)
FlushCalls(mgr, todo) ==
    IF todo = {} THEN <<>>
    ELSE <<CallOp("FlushPage", CHOOSE p \in todo : TRUE, mgr)>>
         \o FlushCalls(mgr, todo \ {CHOOSE p \in todo : TRUE})

\* the lock operations and calls of the PageManager functions
PageManagerCode(f) ==
    CASE f.fn = "AllocatePage" ->
           IF Len(f.mgr.freePages) = 0 /\ ~f.flag
           THEN <<LockOp("Lock", "cacheMutex"), LockOp("Unlock", "cacheMutex")>>
           ELSE <<LockOp("Lock", "cacheMutex"),
                  CallOp("updateFreePageList", 0, PMPickPage(f.mgr)),
                  LockOp("Unlock", "cacheMutex")>>
      [] f.fn = "FreePage" ->
           IF f.id \in DOMAIN f.mgr.pageCache /\ f.mgr.pageCache[f.id].pinCount > 0
           THEN <<LockOp("Lock", "cacheMutex"), LockOp("Unlock", "cacheMutex")>>
           ELSE <<LockOp("Lock", "cacheMutex"),
                  CallOp("updateFreePageList", 0,
                         [f.mgr EXCEPT !.pageCache = CacheDelete(@, f.id),
                                       !.freePages = Append(@, f.id)]),
                  LockOp("Unlock", "cacheMutex")>>
      [] f.fn = "updateFreePageList" -> <<CallOp("GetPage", 0, f.mgr)>>
      [] f.fn = "GetPage" ->
           IF f.id >= f.mgr.numPages THEN <<>>
           ELSE IF f.id \in DOMAIN f.mgr.pageCache \/ f.id + 1 > Len(f.mgr.file)
           THEN <<LockOp("RLock", "cacheMutex"), LockOp("RUnlock", "cacheMutex")>>
           ELSE <<LockOp("RLock", "cacheMutex"), LockOp("RUnlock", "cacheMutex"),
                  LockOp("Lock", "cacheMutex"), LockOp("Unlock", "cacheMutex")>>
      [] f.fn = "FlushPage" ->
           <<LockOp("RLock", "cacheMutex"), LockOp("RUnlock", "cacheMutex")>>
      [] f.fn = "FlushAllPages" ->
           <<LockOp("RLock", "cacheMutex"), LockOp("RUnlock", "cacheMutex")>>
           \o FlushCalls(f.mgr, DirtyPages(f.mgr))

\* the lock operations and calls of the DiskStorage functions; the B+ tree
\* and the catalog code they run does not touch ds.mu
DiskStorageCode(f) ==
    CASE f.fn = "CreateTable" ->
           IF f.id \in DOMAIN f.mgr.tables
           THEN <<LockOp("Lock", "mu"), LockOp("Unlock", "mu")>>
           ELSE <<LockOp("Lock", "mu"), CallOp("saveCatalog", f.id, f.mgr),
                  LockOp("Unlock", "mu")>>
      [] f.fn = "DropTable" ->
           IF f.id \notin DOMAIN f.mgr.tables
           THEN <<LockOp("Lock", "mu"), LockOp("Unlock", "mu")>>
           ELSE <<LockOp("Lock", "mu"), CallOp("saveCatalog", f.id, f.mgr),
                  LockOp("Unlock", "mu")>>
      [] f.fn = "saveCatalog" -> <<>>
      [] f.fn = "Insert" -> <<LockOp("Lock", "mu"), LockOp("Unlock", "mu")>>
      [] f.fn \in {"Update", "Delete"} ->
           IF f.id \notin DOMAIN f.mgr.tables
           THEN <<LockOp("Lock", "mu"), LockOp("Unlock", "mu")>>
           ELSE <<LockOp("Lock", "mu"), CallOp("Select", f.id, f.mgr),
                  LockOp("Unlock", "mu")>>
      [] f.fn = "Select" -> <<LockOp("RLock", "mu"), LockOp("RUnlock", "mu")>>

PageManagerFns ==
    {"AllocatePage", "FreePage", "updateFreePageList", "GetPage", "FlushPage", "FlushAllPages"}

LockCode(f) == IF f.fn \in PageManagerFns THEN PageManagerCode(f) ELSE DiskStorageCode(f)

LockIdle ==
    /\ lstack = <<>>
    /\ lmutex = [mu \in Mutexes |-> MutexFree]

InCall == lstack # <<>>
Top == lstack[Len(lstack)]
AtEnd == Top.pc > Len(LockCode(Top))
NextOp == LockCode(Top)[Top.pc]
Advance == lstack' = [lstack EXCEPT ![Len(lstack)].pc = @ + 1]

\* mu.Lock(): waits while anybody holds the mutex
LLock ==
    /\ InCall /\ ~AtEnd /\ NextOp.k = "Lock"
    /\ ~lmutex[NextOp.mu].w /\ lmutex[NextOp.mu].r = 0
    /\ lmutex' = [lmutex EXCEPT ![NextOp.mu].w = TRUE]
    /\ Advance

\* mu.RLock(): waits while a writer holds the mutex
LRLock ==
    /\ InCall /\ ~AtEnd /\ NextOp.k = "RLock"
    /\ ~lmutex[NextOp.mu].w
    /\ lmutex' = [lmutex EXCEPT ![NextOp.mu].r = @ + 1]
    /\ Advance

LUnlock ==
    /\ InCall /\ ~AtEnd /\ NextOp.k = "Unlock"
    /\ lmutex' = [lmutex EXCEPT ![NextOp.mu].w = FALSE]
    /\ Advance

LRUnlock ==
    /\ InCall /\ ~AtEnd /\ NextOp.k = "RUnlock"
    /\ lmutex' = [lmutex EXCEPT ![NextOp.mu].r = @ - 1]
    /\ Advance

\* a call from inside a function
LEnter ==
    /\ InCall /\ ~AtEnd /\ NextOp.k = "call"
    /\ lstack' = Append(lstack, Frame(NextOp.fn, NextOp.id, TRUE, NextOp.mgr))
    /\ UNCHANGED lmutex

\* the return of such a call
LLeave ==
    /\ Len(lstack) > 1 /\ AtEnd
    /\ lstack' = [SubSeq(lstack, 1, Len(lstack) - 1) EXCEPT ![Len(lstack) - 1].pc = @ + 1]
    /\ UNCHANGED lmutex

\* the caller is at the end of the function it called
AtReturn == Len(lstack) = 1 /\ AtEnd

\* ---- the caller of the page manager
PLCall(fn, id, flag) ==
    /\ ~InCall /\ pops < MaxPMOps
    /\ lstack' = <<Frame(fn, id, flag, pmgr)>>
    /\ UNCHANGED <<lmutex, pmVars>>

PLReturn ==
    /\ AtReturn
    /\ lstack' = <<>>
    /\ PMCall(CASE Top.fn = "AllocatePage" -> PMAllocatePage(pmgr, Top.flag)
                [] Top.fn = "FreePage" -> PMFreePage(pmgr, Top.id)
                [] Top.fn = "GetPage" -> PMGetPage(pmgr, Top.id)
                [] Top.fn = "FlushPage" -> PMFlushPage(pmgr, Top.id, PageSize)
                [] Top.fn = "FlushAllPages" ->
                     PMFlushAllPages(pmgr, DirtyPages(pmgr), NoPage, PageSize),
              Top.fn)
    /\ UNCHANGED lmutex

\* Page.Unpin takes no lock
PLUnpin(id) == ~InCall /\ PUnpin(id) /\ UNCHANGED lockVars

PMLockInit == PMInit /\ LockIdle

\* ---- the caller of the DiskStorage
DLCall(fn, n) ==
    /\ ~InCall /\ DiskReady
    /\ lstack' = <<Frame(fn, n, TRUE, ds)>>
    /\ UNCHANGED <<lmutex, storeVars>>

DLReturnCreateTable ==
    /\ AtReturn /\ Top.fn = "CreateTable"
    /\ lstack' = <<>>
    /\ \E schema \in Schemas : DCreateTable(Top.id, schema)
    /\ UNCHANGED lmutex

DLReturnDropTable ==
    /\ AtReturn /\ Top.fn = "DropTable"
    /\ lstack' = <<>>
    /\ DDropTable(Top.id)
    /\ UNCHANGED lmutex

DLReturnInsert ==
    /\ AtReturn /\ Top.fn = "Insert"
    /\ lstack' = <<>>
    /\ \E values \in InsertRows : DInsert(Top.id, values)
    /\ UNCHANGED lmutex

DLReturnUpdate ==
    /\ AtReturn /\ Top.fn = "Update"
    /\ lstack' = <<>>
    /\ \E values \in SetValues, condition \in Conditions : DUpdate(Top.id, values, condition)
    /\ UNCHANGED lmutex

DLReturnDelete ==
    /\ AtReturn /\ Top.fn = "Delete"
    /\ lstack' = <<>>
    /\ \E condition \in Conditions : DDelete(Top.id, condition)
    /\ UNCHANGED lmutex

DLReturnSelect ==
    /\ AtReturn /\ Top.fn = "Select"
    /\ lstack' = <<>>
    /\ \E columns \in SelectLists, condition \in Conditions : DSelect(Top.id, columns, condition)
    /\ UNCHANGED lmutex

DiskLockInit == StoreInit /\ impl = "disk" /\ LockIdle


\* =============================================================== SpecGetPage
\* Goroutines calling GetPage on one page manager at the same time, as the
\* readers of DiskStorage.Select do under ds.mu.RLock.  The manager was opened
\* on an existing file of GetPages pages: the header page is in the cache,
\* pinned once by loadFreePageList, the other pages are on disk.  A Page
\* object is an index of gobjs.  p.pinCount++ in Page.Pin is a read and a
\* write of the field without any lock: two goroutines in Pin race, and the
\* steps GPinRead and GPinWrite give the outcomes of that race.
MaxReaders == 2      \* goroutines
MaxGetCalls == 2     \* GetPage calls of each goroutine
GetPages == 2        \* numPages of the file; GetPage is called for 0..GetPages-1

Readers == 1..MaxReaders

VARIABLES
    gpc,       \* goroutine -> [pc, id, page, tmp, calls]
    gobjs,     \* the Page objects made so far: sequence of [id, pinCount]
    gcache,    \* pm.pageCache: page id -> Page object
    gmutex,    \* pm.cacheMutex: [w, r]
    gret       \* Page object -> number of GetPage calls that returned it

getVars == <<gpc, gobjs, gcache, gmutex, gret>>

GIdleFrame == [pc |-> "idle", id |-> 0, page |-> 0, tmp |-> 0, calls |-> 0]

GetIdle ==
    /\ gpc = [g \in {} |-> GIdleFrame]
    /\ gobjs = <<>>
    /\ gcache = <<>>
    /\ gmutex = MutexFree
    /\ gret = <<>>

GetInit ==
    /\ gpc = [g \in Readers |-> GIdleFrame]
    /\ gobjs = <<[id |-> 0, pinCount |-> 1]>>
    /\ gcache = CachePut(<<>>, 0, 1)
    /\ gmutex = MutexFree
    /\ gret = <<1>>

At(g, pc) == g \in DOMAIN gpc /\ gpc[g].pc = pc
Goto(g, pc) == gpc' = [gpc EXCEPT ![g].pc = pc]

\* GetPage(id) is called; the range test passes
GCall(g, id) ==
    /\ At(g, "idle") /\ gpc[g].calls < MaxGetCalls
    /\ gpc' = [gpc EXCEPT ![g] = [pc |-> "RLock", id |-> id, page |-> 0, tmp |-> 0,
                                  calls |-> @.calls + 1]]
    /\ UNCHANGED <<gobjs, gcache, gmutex, gret>>

\* pm.cacheMutex.RLock()
GRLock(g) ==
    /\ At(g, "RLock") /\ ~gmutex.w
    /\ gmutex' = [gmutex EXCEPT !.r = @ + 1]
    /\ Goto(g, "lookup")
    /\ UNCHANGED <<gobjs, gcache, gret>>

\* page, exists := pm.pageCache[pageID]; pm.cacheMutex.RUnlock()
GLookup(g) ==
    /\ At(g, "lookup")
    /\ gmutex' = [gmutex EXCEPT !.r = @ - 1]
    /\ gpc' = [gpc EXCEPT ![g].pc = IF gpc[g].id \in DOMAIN gcache THEN "PinRead" ELSE "load",
                          ![g].page = IF gpc[g].id \in DOMAIN gcache THEN gcache[gpc[g].id] ELSE 0]
    /\ UNCHANGED <<gobjs, gcache, gret>>

\* Page.Pin: the read of p.pinCount
GPinRead(g) ==
    /\ At(g, "PinRead")
    /\ gpc' = [gpc EXCEPT ![g].pc = "PinWrite", ![g].tmp = gobjs[gpc[g].page].pinCount]
    /\ UNCHANGED <<gobjs, gcache, gmutex, gret>>

\* Page.Pin: the write of p.pinCount
GPinWrite(g) ==
    /\ At(g, "PinWrite")
    /\ gobjs' = [gobjs EXCEPT ![gpc[g].page].pinCount = gpc[g].tmp + 1]
    /\ Goto(g, "return")
    /\ UNCHANGED <<gcache, gmutex, gret>>

\* loadPageFromDisk: a new Page with pin count 1
GLoad(g) ==
    /\ At(g, "load")
    /\ gobjs' = Append(gobjs, [id |-> gpc[g].id, pinCount |-> 1])
    /\ gpc' = [gpc EXCEPT ![g].pc = "Lock", ![g].page = Len(gobjs) + 1]
    /\ UNCHANGED <<gcache, gmutex, gret>>

\* pm.cacheMutex.Lock()
GLock(g) ==
    /\ At(g, "Lock") /\ ~gmutex.w /\ gmutex.r = 0
    /\ gmutex' = [gmutex EXCEPT !.w = TRUE]
    /\ Goto(g, "recheck")
    /\ UNCHANGED <<gobjs, gcache, gret>>

\* the second look at the cache, up to the Unlock: the page another goroutine
\* cached is used, or the page loaded is put in the cache
GRecheck(g) ==
    /\ At(g, "recheck")
    /\ gmutex' = [gmutex EXCEPT !.w = FALSE]
    /\ IF gpc[g].id \in DOMAIN gcache
       THEN /\ gpc' = [gpc EXCEPT ![g].pc = "PinRead", ![g].page = gcache[gpc[g].id]]
            /\ UNCHANGED gcache
       ELSE /\ gcache' = CachePut(gcache, gpc[g].id, gpc[g].page)
            /\ Goto(g, "return")
    /\ UNCHANGED <<gobjs, gret>>

\* GetPage returns the page
GReturn(g) ==
    /\ At(g, "return")
    /\ gret' = [o \in 1..Len(gobjs) |->
                  (IF o \in DOMAIN gret THEN gret[o] ELSE 0) + (IF o = gpc[g].page THEN 1 ELSE 0)]
    /\ Goto(g, "idle")
    /\ UNCHANGED <<gobjs, gcache, gmutex>>


\* ================================================================== SpecExec
\* The Executor over a MemoryCatalog and a Storage.  stor = [impl, ms, ds,
\* files] is the Storage behind the interface; cat maps the table names of the
\* catalog to their schemas.  Storage calls return [st, count, stor].
MaxExecOps == 3      \* statements per behaviour of SpecExec
MaxDBOps == 4        \* SQL texts per behaviour of SpecDB

NewStorage(kind) ==
    [impl |-> kind, ms |-> NewMemoryStorage, ds |-> NewDiskStorage(NoFiles).ds, files |-> NoFiles]

\* a MemoryStorage call returned r = [st, ms] or [st, count, ms]
OfMem(stor, r) == [st |-> r.st, count |-> 0, stor |-> [stor EXCEPT !.ms = r.ms]]
OfMemCount(stor, r) == [st |-> r.st, count |-> r.count, stor |-> [stor EXCEPT !.ms = r.ms]]
\* a DiskStorage call returned r = [st, count, ds, files]
OfDisk(stor, r) ==
    [st |-> r.st, count |-> r.count, stor |-> [stor EXCEPT !.ds = r.ds, !.files = r.files]]

\* the methods of the Storage interface on stor
StorageCreateTable(stor, tableName, schema) ==
    IF stor.impl = "memory" THEN OfMem(stor, MemCreateTable(stor.ms, tableName, schema))
    ELSE OfDisk(stor, DiskCreateTable(stor.ds, stor.files, tableName, schema))
StorageDropTable(stor, tableName) ==
    IF stor.impl = "memory" THEN OfMem(stor, MemDropTable(stor.ms, tableName))
    ELSE OfDisk(stor, DiskDropTable(stor.ds, stor.files, tableName))
StorageInsert(stor, tableName, values) ==
    IF stor.impl = "memory" THEN OfMem(stor, MemInsert(stor.ms, tableName, values))
    ELSE OfDisk(stor, DiskInsert(stor.ds, stor.files, tableName, values))
StorageUpdate(stor, tableName, values, condition) ==
    IF stor.impl = "memory"
    THEN OfMemCount(stor, MemUpdate(stor.ms, tableName, values, condition))
    ELSE OfDisk(stor, DiskUpdate(stor.ds, stor.files, tableName, values, condition))
StorageDelete(stor, tableName, condition) ==
    IF stor.impl = "memory" THEN OfMemCount(stor, MemDelete(stor.ms, tableName, condition))
    ELSE OfDisk(stor, DiskDelete(stor.ds, stor.files, tableName, condition))
StorageSelect(stor, tableName, columns, condition) ==
    IF stor.impl = "memory" THEN MemSelect(stor.ms, tableName, columns, condition)
    ELSE DiskSelect(stor.ds, tableName, columns, condition)

\* ---- MemoryCatalog
NewCatalog == [n \in {} |-> NilSchema]

\* MemoryCatalog.CreateTable as it would be without the test for an existing
\* table: the new schema replaces the old one
CatalogCreateTableAgain(cat, name, columns) ==
    [st |-> "ok",
     cat |-> [n \in DOMAIN cat \cup {name} |->
                 IF n = name THEN [name |-> name, columns |-> columns] ELSE cat[n]]]

\* MemoryCatalog.CreateTable: [st, cat]
CatalogCreateTable(cat, name, columns) ==
    IF name \in DOMAIN cat THEN [st |-> "err", cat |-> cat]
    ELSE [st |-> "ok",
          cat |-> [n \in DOMAIN cat \cup {name} |->
                      IF n = name THEN [name |-> name, columns |-> columns] ELSE cat[n]]]

\* MemoryCatalog.DropTable: [st, cat]
CatalogDropTable(cat, name) ==
    IF name \notin DOMAIN cat THEN [st |-> "err", cat |-> cat]
    ELSE [st |-> "ok", cat |-> [n \in DOMAIN cat \ {name} |-> cat[n]]]

\* memoryTableSchema.HasColumn
HasColumn(schema, name) == name \in ColumnNames(schema)

\* ---- Executor.  An execution returns [type, rowsAffected, inserted, rows,
\* cat, stor]: the executionResult, the catalog and the storage afterwards, and
\* the number of storage.Insert calls of the execution that returned nil.
\* type "panic" stands for a panic of the storage that ends the program.
ExecResult(type, rowsAffected, inserted, rows, cat, stor) ==
    [type |-> type, rowsAffected |-> rowsAffected, inserted |-> inserted, rows |-> rows,
     cat |-> cat, stor |-> stor]
ResultError(cat, stor) == ExecResult("ResultError", 0, 0, <<>>, cat, stor)
ResultSuccess(rowsAffected, cat, stor) ==
    ExecResult("ResultSuccess", rowsAffected, 0, <<>>, cat, stor)
\* the result of a storage call r = [st, count, stor] that ends an execution
ResultOf(r, cat) ==
    IF r.st = "ok" THEN ResultSuccess(r.count, cat, r.stor)
    ELSE IF r.st = "err" THEN ResultError(cat, r.stor)
    ELSE ExecResult("panic", 0, 0, <<>>, cat, r.stor)

\* executeCreateTable after storage.CreateTable returned r, as it would be
\* without the call of catalog.DropTable
CreateTableNoRollback(r, cat, tableName) == ResultOf(r, cat)

\* executeCreateTable after storage.CreateTable returned r
CreateTableStored(r, cat, tableName) ==
    IF r.st = "err" THEN ResultError(CatalogDropTable(cat, tableName).cat, r.stor)
    ELSE ResultOf(r, cat)

\* executeCreateTable after catalog.CreateTable returned c
CreateTableCatalogued(c, stor, tableName) ==
    IF c.st # "ok" THEN ResultError(c.cat, stor)
    ELSE IF tableName \notin DOMAIN c.cat THEN ResultError(c.cat, stor)
    ELSE CreateTableStored(StorageCreateTable(stor, tableName, c.cat[tableName]),
                           c.cat, tableName)

\* Executor.executeCreateTable
executeCreateTable(cat, stor, tableName, columns) ==
    CreateTableCatalogued(CatalogCreateTable(cat, tableName, columns), stor, tableName)

\* executeDropTable after storage.DropTable returned r, as it would be if it
\* left the schema in the catalog
DropTableKeepsSchema(r, cat, tableName) == ResultOf(r, cat)

\* executeDropTable after storage.DropTable returned r
DropTableStored(r, cat, tableName) ==
    IF r.st # "ok" THEN ResultOf(r, cat)
    ELSE IF CatalogDropTable(cat, tableName).st # "ok" THEN ResultError(cat, r.stor)
    ELSE ResultSuccess(0, CatalogDropTable(cat, tableName).cat, r.stor)

\* Executor.executeDropTable
executeDropTable(cat, stor, tableName) ==
    IF tableName \notin DOMAIN cat THEN ResultError(cat, stor)
    ELSE DropTableStored(StorageDropTable(stor, tableName), cat, tableName)

\* the row executeInsert prepares: row[colName] = values[i] for i in order
PrepareRow(columns, values) ==
    [c \in {columns[i] : i \in 1..Len(columns)} |->
        values[CHOOSE i \in 1..Len(columns) :
                  columns[i] = c /\ \A j \in 1..Len(columns) : columns[j] = c => j <= i]]

\* the loop of executeInsert from tuple k on, and its step after storage.Insert
\* returned r
RECURSIVE InsertValues(_, _, _, _, _, _, _)
RECURSIVE InsertStored(_, _, _, _, _, _, _)
InsertValues(cat, stor, tableName, columns, tuples, k, rowsAffected) ==
    IF k > Len(tuples) THEN ExecResult("ResultSuccess", rowsAffected, rowsAffected, <<>>, cat, stor)
    ELSE IF Len(tuples[k]) # Len(columns)
    THEN ExecResult("ResultError", 0, rowsAffected, <<>>, cat, stor)
    ELSE InsertStored(StorageInsert(stor, tableName, PrepareRow(columns, tuples[k])),
                      cat, tableName, columns, tuples, k, rowsAffected)
InsertStored(r, cat, tableName, columns, tuples, k, rowsAffected) ==
    IF r.st = "err" THEN ExecResult("ResultError", rowsAffected, rowsAffected, <<>>, cat, r.stor)
    ELSE IF r.st # "ok" THEN ExecResult("panic", 0, rowsAffected, <<>>, cat, r.stor)
    ELSE InsertValues(cat, r.stor, tableName, columns, tuples, k + 1, rowsAffected + 1)

\* Executor.executeInsert
executeInsert(cat, stor, tableName, columns, tuples) ==
    IF tableName \notin DOMAIN cat THEN ResultError(cat, stor)
    ELSE IF \E i \in 1..Len(columns) : ~HasColumn(cat[tableName], columns[i])
    THEN ResultError(cat, stor)
    ELSE InsertValues(cat, stor, tableName, columns, tuples, 1, 0)

\* Executor.executeUpdate, the set clauses evaluated to values
executeUpdate(cat, stor, tableName, values, condition) ==
    IF tableName \notin DOMAIN cat THEN ResultError(cat, stor)
    ELSE ResultOf(StorageUpdate(stor, tableName, values, condition), cat)

\* Executor.executeDelete
executeDelete(cat, stor, tableName, condition) ==
    IF tableName \notin DOMAIN cat THEN ResultError(cat, stor)
    ELSE ResultOf(StorageDelete(stor, tableName, condition), cat)

\* executeSelect after storage.Select returned r = [st, rows]
SelectDone(r, cat, stor) ==
    IF r.st = "ok" THEN ExecResult("ResultRows", 0, 0, r.rows, cat, stor)
    ELSE IF r.st = "err" THEN ResultError(cat, stor)
    ELSE ExecResult("panic", 0, 0, <<>>, cat, stor)

\* Executor.executeSelect
executeSelect(cat, stor, tableName, columns, condition) ==
    IF tableName \notin DOMAIN cat THEN ResultError(cat, stor)
    ELSE SelectDone(StorageSelect(stor, tableName, columns, condition), cat, stor)

\* ---- SimpleParser.  SQL texts and identifiers are sequences of ASCII codes.
IsSpace(c) == c \in {9, 10, 11, 12, 13, 32}
IsDigit(c) == 48 <= c /\ c <= 57
IsWord(c) == IsDigit(c) \/ (65 <= c /\ c <= 90) \/ (97 <= c /\ c <= 122) \/ c = 95
ToUpper(str) == [i \in 1..Len(str) |-> IF 97 <= str[i] /\ str[i] <= 122 THEN str[i] - 32 ELSE str[i]]
HasPrefix(str, prefix) ==
    Len(str) >= Len(prefix) /\ SubSeq(str, 1, Len(prefix)) = prefix
HasSuffix(str, suffix) ==
    Len(str) >= Len(suffix) /\ SubSeq(str, Len(str) - Len(suffix) + 1, Len(str)) = suffix
EqualFold(str, other) == ToUpper(str) = ToUpper(other)
Contains(str, c) == \E i \in 1..Len(str) : str[i] = c

\* the first position from p on whose character is not (resp. is) in the
\* class, Len(str) + 1 if there is none
RECURSIVE SkipSpace(_, _)
SkipSpace(str, p) == IF p > Len(str) \/ ~IsSpace(str[p]) THEN p ELSE SkipSpace(str, p + 1)
RECURSIVE SkipWord(_, _)
SkipWord(str, p) == IF p > Len(str) \/ ~IsWord(str[p]) THEN p ELSE SkipWord(str, p + 1)
RECURSIVE SkipNonSpace(_, _)
SkipNonSpace(str, p) == IF p > Len(str) \/ IsSpace(str[p]) THEN p ELSE SkipNonSpace(str, p + 1)
RECURSIVE SkipDigits(_, _)
SkipDigits(str, p) == IF p > Len(str) \/ ~IsDigit(str[p]) THEN p ELSE SkipDigits(str, p + 1)
RECURSIVE Find(_, _, _)
Find(str, p, c) == IF p > Len(str) \/ str[p] = c THEN p ELSE Find(str, p + 1, c)

\* strings.TrimSpace and strings.TrimRight(s, ";")
RECURSIVE TrimRightSpace(_)
TrimRightSpace(str) ==
    IF Len(str) > 0 /\ IsSpace(str[Len(str)]) THEN TrimRightSpace(SubSeq(str, 1, Len(str) - 1))
    ELSE str
TrimSpace(str) == TrimRightSpace(SubSeq(str, SkipSpace(str, 1), Len(str)))
RECURSIVE TrimRight(_, _)
TrimRight(str, c) ==
    IF Len(str) > 0 /\ str[Len(str)] = c THEN TrimRight(SubSeq(str, 1, Len(str) - 1), c)
    ELSE str

\* strings.Fields
RECURSIVE Fields(_, _)
Fields(str, p) ==
    IF SkipSpace(str, p) > Len(str) THEN <<>>
    ELSE <<SubSeq(str, SkipSpace(str, p), SkipNonSpace(str, SkipSpace(str, p)) - 1)>>
           \o Fields(str, SkipNonSpace(str, SkipSpace(str, p)))

\* splitIgnoringParentheses: the loop from position p on
RECURSIVE SplitFrom(_, _, _, _, _, _)
SplitFrom(str, p, sep, depth, current, result) ==
    IF p > Len(str) THEN (IF Len(current) > 0 THEN Append(result, current) ELSE result)
    ELSE IF str[p] = sep /\ (IF str[p] = 40 THEN depth + 1
                             ELSE IF str[p] = 41 THEN depth - 1 ELSE depth) = 0
    THEN SplitFrom(str, p + 1, sep, 0, <<>>, Append(result, current))
    ELSE SplitFrom(str, p + 1, sep,
                   IF str[p] = 40 THEN depth + 1 ELSE IF str[p] = 41 THEN depth - 1 ELSE depth,
                   Append(current, str[p]), result)
splitIgnoringParentheses(str, sep) == SplitFrom(str, 1, sep, 0, <<>>, <<>>)
splitAndTrim(str, sep) ==
    [i \in 1..Len(splitIgnoringParentheses(str, sep)) |->
        TrimSpace(splitIgnoringParentheses(str, sep)[i])]

\* the keywords the parser compares with
KwCreateTable == <<67, 82, 69, 65, 84, 69, 32, 84, 65, 66, 76, 69>>    \* "CREATE TABLE"
KwDropTable == <<68, 82, 79, 80, 32, 84, 65, 66, 76, 69>>    \* "DROP TABLE"
KwInsertInto == <<73, 78, 83, 69, 82, 84, 32, 73, 78, 84, 79>>    \* "INSERT INTO"
KwUpdate == <<85, 80, 68, 65, 84, 69>>    \* "UPDATE"
KwDeleteFrom == <<68, 69, 76, 69, 84, 69, 32, 70, 82, 79, 77>>    \* "DELETE FROM"
KwSelect == <<83, 69, 76, 69, 67, 84>>    \* "SELECT"
KwValues == <<86, 65, 76, 85, 69, 83>>    \* "VALUES"
KwNotNull == <<78, 79, 84, 32, 78, 85, 76, 76>>    \* "NOT NULL"
KwUnique == <<85, 78, 73, 81, 85, 69>>    \* "UNIQUE"
KwPrimaryKey == <<80, 82, 73, 77, 65, 82, 89, 32, 75, 69, 89>>    \* "PRIMARY KEY"
KwNull == <<78, 85, 76, 76>>    \* "NULL"
KwTrue == <<84, 82, 85, 69>>    \* "TRUE"
KwFalse == <<70, 65, 76, 83, 69>>    \* "FALSE"

\* parseDataType
parseDataType(typeStr) ==
    IF ToUpper(typeStr) \in {<<73, 78, 84>>, <<73, 78, 84, 69, 71, 69, 82>>} THEN TypeInt
    ELSE IF ToUpper(typeStr) \in {<<70, 76, 79, 65, 84>>, <<82, 69, 65, 76>>, <<68, 79, 85, 66, 76, 69>>} THEN TypeFloat
    ELSE IF ToUpper(typeStr) \in {<<66, 79, 79, 76>>, <<66, 79, 79, 76, 69, 65, 78>>} THEN TypeBool
    ELSE TypeString

\* parseConstraints: the tokens come from strings.Fields, one word each
ConstraintOf(str) ==
    IF ToUpper(TrimSpace(str)) = KwNotNull THEN ConstraintNotNull
    ELSE IF ToUpper(TrimSpace(str)) = KwUnique THEN ConstraintUnique
    ELSE IF ToUpper(TrimSpace(str)) = KwPrimaryKey THEN ConstraintPrimaryKey
    ELSE 0 - 1
RECURSIVE parseConstraints(_)
parseConstraints(constraintStrs) ==
    IF Len(constraintStrs) = 0 THEN <<>>
    ELSE (IF ConstraintOf(Head(constraintStrs)) = 0 - 1 THEN <<>>
          ELSE <<ConstraintOf(Head(constraintStrs))>>)
         \o parseConstraints(Tail(constraintStrs))

\* parseInt: fmt.Sscanf(s, "%d") on a text of decimal digits with optional sign
RECURSIVE DigitsValue(_, _, _)
DigitsValue(str, p, acc) ==
    IF p > Len(str) \/ ~IsDigit(str[p]) THEN acc
    ELSE DigitsValue(str, p + 1, 10 * acc + (str[p] - 48))
parseInt(str) ==
    IF Len(str) > 0 /\ str[1] = 45 THEN 0 - DigitsValue(str, 2, 0)
    ELSE IF Len(str) > 0 /\ str[1] = 43 THEN DigitsValue(str, 2, 0)
    ELSE DigitsValue(str, 1, 0)

\* isStringLiteral and isNumericLiteral (a text that starts with a decimal
\* number: optional sign, then a digit)
isStringLiteral(expr) ==
    \/ HasPrefix(expr, <<39>>) /\ HasSuffix(expr, <<39>>)
    \/ HasPrefix(expr, <<34>>) /\ HasSuffix(expr, <<34>>)
isNumericLiteral(expr) ==
    \/ Len(expr) >= 1 /\ IsDigit(expr[1])
    \/ Len(expr) >= 2 /\ expr[1] \in {43, 45} /\ IsDigit(expr[2])

\* the Value parseValueLists appends for the text val: the literal
\* parseExpression finds, NULL for a comparison or a column reference
LiteralValue(val) ==
    IF Contains(val, 61) THEN NewNullValue
    ELSE IF isStringLiteral(val) THEN NewStringValue(SubSeq(val, 2, Len(val) - 1))
    ELSE IF isNumericLiteral(val)
    THEN (IF Contains(val, 46) THEN NewFloatValue(parseInt(val), val)
          ELSE NewIntValue(parseInt(val)))
    ELSE IF EqualFold(val, KwNull) THEN NewNullValue
    ELSE IF EqualFold(val, KwTrue) THEN NewBoolValue(TRUE)
    ELSE IF EqualFold(val, KwFalse) THEN NewBoolValue(FALSE)
    ELSE NewNullValue

\* the matches of \(([^)]+)\) in str from position p on
RECURSIVE ValueGroups(_, _)
ValueGroups(str, p) ==
    IF Find(str, p, 40) > Len(str) \/ Find(str, Find(str, p, 40) + 1, 41) > Len(str) THEN <<>>
    ELSE IF Find(str, Find(str, p, 40) + 1, 41) = Find(str, p, 40) + 1
    THEN ValueGroups(str, Find(str, p, 40) + 1)
    ELSE <<SubSeq(str, Find(str, p, 40) + 1, Find(str, Find(str, p, 40) + 1, 41) - 1)>>
           \o ValueGroups(str, Find(str, Find(str, p, 40) + 1, 41) + 1)

\* parseValueLists
ValueList(group) ==
    [i \in 1..Len(splitIgnoringParentheses(group, 44)) |->
        LiteralValue(TrimSpace(splitIgnoringParentheses(group, 44)[i]))]
parseValueLists(valuesStr) ==
    [g \in 1..Len(ValueGroups(valuesStr, 1)) |-> ValueList(ValueGroups(valuesStr, 1)[g])]

\* A parsed statement is [st, type, tableName, columns, values]; st = "err"
\* when Parse returns an error.
ParseError == [st |-> "err", type |-> "none", tableName |-> <<>>, columns |-> <<>>, values |-> <<>>]
Statement(type, tableName, columns, values) ==
    [st |-> "ok", type |-> type, tableName |-> tableName, columns |-> columns, values |-> values]

\* the last ")" of str, 0 if there is none
LastClose(str) ==
    IF \E i \in 1..Len(str) : str[i] = 41
    THEN CHOOSE i \in 1..Len(str) : str[i] = 41 /\ \A j \in (i + 1)..Len(str) : str[j] # 41
    ELSE 0

\* the column definitions parseCreateTable builds from the parts of the text
\* between the parentheses
ColumnOf(parts) == Column(parts[1], parseDataType(parts[2]), parseConstraints(SubSeq(parts, 3, Len(parts))))
CreateColumns(colParts) ==
    IF \E i \in 1..Len(colParts) : Len(Fields(TrimSpace(colParts[i]), 1)) < 2 THEN ParseError
    ELSE [ParseError EXCEPT !.st = "ok",
                            !.columns = [i \in 1..Len(colParts) |->
                                            ColumnOf(Fields(TrimSpace(colParts[i]), 1))]]

\* parseCreateTable: CREATE\s+TABLE\s+(\w+)\s*\((.*)\) on a text that starts
\* with "CREATE TABLE"; name is the position of the table name
CreateTableAt(sql, name) ==
    IF name = 13 \/ SkipWord(sql, name) = name
         \/ SkipSpace(sql, SkipWord(sql, name)) > Len(sql)
         \/ sql[SkipSpace(sql, SkipWord(sql, name))] # 40
         \/ LastClose(sql) < SkipSpace(sql, SkipWord(sql, name))
    THEN ParseError
    ELSE [CreateColumns(splitIgnoringParentheses(
              SubSeq(sql, SkipSpace(sql, SkipWord(sql, name)) + 1, LastClose(sql) - 1), 44))
            EXCEPT !.type = "StmtCreate",
                   !.tableName = SubSeq(sql, name, SkipWord(sql, name) - 1)]
parseCreateTable(sql) ==
    IF CreateTableAt(sql, SkipSpace(sql, 13)).st = "ok"
    THEN CreateTableAt(sql, SkipSpace(sql, 13)) ELSE ParseError

\* parseDropTable: DROP\s+TABLE\s+(\w+) on a text that starts with "DROP TABLE"
parseDropTable(sql) ==
    IF SkipSpace(sql, 11) = 11 \/ SkipWord(sql, SkipSpace(sql, 11)) = SkipSpace(sql, 11)
    THEN ParseError
    ELSE Statement("StmtDrop",
                   SubSeq(sql, SkipSpace(sql, 11), SkipWord(sql, SkipSpace(sql, 11)) - 1),
                   <<>>, <<>>)

\* VALUES and a non-empty rest follow at position p of sql
ValuesAt(sql, p) ==
    /\ HasPrefix(ToUpper(SubSeq(sql, p, Len(sql))), KwValues)
    /\ SkipSpace(sql, p + 6) <= Len(sql)
ValuesText(sql, p) == SubSeq(sql, SkipSpace(sql, p + 6), Len(sql))

\* parseInsert with the column list: INSERT\s+INTO\s+(\w+)\s*\(([^)]+)\)\s*VALUES\s*(.+),
\* the table name in sql[name..open-1] up to spaces, "(" at open
InsertColumnsAt(sql, name, open, close) ==
    IF open > Len(sql) \/ sql[open] # 40 \/ close > Len(sql) \/ close = open + 1
         \/ ~ValuesAt(sql, SkipSpace(sql, close + 1))
    THEN ParseError
    ELSE Statement("StmtInsert", SubSeq(sql, name, SkipWord(sql, name) - 1),
                   splitAndTrim(SubSeq(sql, open + 1, close - 1), 44),
                   parseValueLists(ValuesText(sql, SkipSpace(sql, close + 1))))

\* parseInsert without it: INSERT\s+INTO\s+(\w+)\s+VALUES\s+(.+)
InsertValuesAt(sql, name, values) ==
    IF values = SkipWord(sql, name) \/ ~ValuesAt(sql, values)
         \/ SkipSpace(sql, values + 6) = values + 6
    THEN ParseError
    ELSE Statement("StmtInsert", SubSeq(sql, name, SkipWord(sql, name) - 1), <<>>,
                   parseValueLists(ValuesText(sql, values)))

\* parseInsert on a text that starts with "INSERT INTO"
InsertIntoAt(sql, name) ==
    IF name = 12 \/ SkipWord(sql, name) = name THEN ParseError
    ELSE IF InsertColumnsAt(sql, name, SkipSpace(sql, SkipWord(sql, name)),
                            Find(sql, SkipSpace(sql, SkipWord(sql, name)) + 1, 41)).st = "ok"
    THEN InsertColumnsAt(sql, name, SkipSpace(sql, SkipWord(sql, name)),
                         Find(sql, SkipSpace(sql, SkipWord(sql, name)) + 1, 41))
    ELSE InsertValuesAt(sql, name, SkipSpace(sql, SkipWord(sql, name)))
parseInsert(sql) == InsertIntoAt(sql, SkipSpace(sql, 12))

\* SimpleParser.Parse for the statements CREATE TABLE, DROP TABLE and INSERT
Dispatch(sql) ==
    IF HasPrefix(ToUpper(sql), KwCreateTable) THEN parseCreateTable(sql)
    ELSE IF HasPrefix(ToUpper(sql), KwDropTable) THEN parseDropTable(sql)
    ELSE IF HasPrefix(ToUpper(sql), KwInsertInto) THEN parseInsert(sql)
    ELSE ParseError
Parse(sql) == Dispatch(TrimRight(TrimSpace(sql), 59))

\* the SQL texts given to DB.Execute
\* CREATE TABLE t (id INT PRIMARY KEY, name TEXT NOT NULL);
SqlCreateT ==
    <<67, 82, 69, 65, 84, 69, 32, 84, 65, 66, 76, 69, 32, 116, 32, 40, 105, 100, 32, 73, 78, 84, 32, 80, 82, 73, 77, 65, 82, 89, 32, 75, 69, 89, 44, 32, 110, 97, 109, 101, 32, 84, 69, 88, 84, 32, 78, 79, 84, 32, 78, 85, 76, 76, 41, 59>>
\* create table t (id INT UNIQUE)
SqlCreateUnique ==
    <<99, 114, 101, 97, 116, 101, 32, 116, 97, 98, 108, 101, 32, 116, 32, 40, 105, 100, 32, 73, 78, 84, 32, 85, 78, 73, 81, 85, 69, 41>>
\* INSERT INTO t (id) VALUES (1)
SqlInsertId ==
    <<73, 78, 83, 69, 82, 84, 32, 73, 78, 84, 79, 32, 116, 32, 40, 105, 100, 41, 32, 86, 65, 76, 85, 69, 83, 32, 40, 49, 41>>
\* INSERT INTO t (id, name) VALUES (1, 'x'), (2, NULL)
SqlInsertIdName ==
    <<73, 78, 83, 69, 82, 84, 32, 73, 78, 84, 79, 32, 116, 32, 40, 105, 100, 44, 32, 110, 97, 109, 101, 41, 32, 86, 65, 76, 85, 69, 83, 32, 40, 49, 44, 32, 39, 120, 39, 41, 44, 32, 40, 50, 44, 32, 78, 85, 76, 76, 41>>
\* INSERT INTO t VALUES (1, 'x')
SqlInsertValues ==
    <<73, 78, 83, 69, 82, 84, 32, 73, 78, 84, 79, 32, 116, 32, 86, 65, 76, 85, 69, 83, 32, 40, 49, 44, 32, 39, 120, 39, 41>>
\* INSERT INTO t (id, name) VALUES (2, 'y'), (3)
SqlInsertArity ==
    <<73, 78, 83, 69, 82, 84, 32, 73, 78, 84, 79, 32, 116, 32, 40, 105, 100, 44, 32, 110, 97, 109, 101, 41, 32, 86, 65, 76, 85, 69, 83, 32, 40, 50, 44, 32, 39, 121, 39, 41, 44, 32, 40, 51, 41>>
\* DROP TABLE t;
SqlDropT ==
    <<68, 82, 79, 80, 32, 84, 65, 66, 76, 69, 32, 116, 59>>
\* INVALID SQL STATEMENT;
SqlInvalid ==
    <<73, 78, 86, 65, 76, 73, 68, 32, 83, 81, 76, 32, 83, 84, 65, 84, 69, 77, 69, 78, 84, 59>>
\* CREATE TABLE t (id)
SqlCreateBad ==
    <<67, 82, 69, 65, 84, 69, 32, 84, 65, 66, 76, 69, 32, 116, 32, 40, 105, 100, 41>>
SqlTexts ==
    {SqlCreateT, SqlCreateUnique, SqlInsertId, SqlInsertIdName, SqlInsertValues, SqlInsertArity, SqlDropT, SqlInvalid, SqlCreateBad}

\* ---- DB.  Executor.Execute on a parsed statement (the WHERE-less statements
\* the parser model yields), and DB.Execute: [success, rowsAffected, inserted,
\* cat, stor]
ExecuteStatement(cat, stor, stmt) ==
    IF stmt.type = "StmtCreate" THEN executeCreateTable(cat, stor, stmt.tableName, stmt.columns)
    ELSE IF stmt.type = "StmtDrop" THEN executeDropTable(cat, stor, stmt.tableName)
    ELSE executeInsert(cat, stor, stmt.tableName, stmt.columns, stmt.values)

\* DB.Execute after Executor.Execute returned r
DBResult(r) ==
    [type |-> r.type,
     success |-> r.type \in {"ResultSuccess", "ResultRows"},
     rowsAffected |-> IF r.type = "ResultSuccess" THEN r.rowsAffected ELSE 0,
     inserted |-> r.inserted, rows |-> r.rows, cat |-> r.cat, stor |-> r.stor]

\* DB.Execute after Parse returned stmt
DBExecuteParsed(cat, stor, stmt) ==
    IF stmt.st # "ok" THEN DBResult(ResultError(cat, stor))
    ELSE DBResult(ExecuteStatement(cat, stor, stmt))

\* DB.Execute
DBExecute(cat, stor, sql) == DBExecuteParsed(cat, stor, Parse(sql))

\* ---- the statements given to the Executor
ColC == <<99>>
\* t(a INT PRIMARY KEY, b STRING) and t(a INT NOT NULL, b STRING)
ColumnLists == {SchemaPK.columns, SchemaPlain.columns}
InsertColumns == {<<ColA>>, <<ColA, ColB>>, <<ColC>>}
Tuples ==
    {<<NewIntValue(1)>>, <<NewIntValue(2)>>, <<NewNullValue>>,
     <<NewIntValue(1), NewStringValue(<<120>>)>>}
TupleLists == {<<u>> : u \in Tuples} \cup {<<u, v>> : u \in Tuples, v \in Tuples}

VARIABLES
    ecat,      \* the MemoryCatalog of the Executor
    estore,    \* its Storage
    eres,      \* the last statement and its result
    edropped,  \* TableT was dropped by a DROP TABLE that succeeded and no CREATE TABLE has succeeded since
    eops       \* statements so far

execVars == <<ecat, estore, eres, edropped, eops>>

NoERes ==
    [op |-> "none", table |-> <<>>, columns |-> <<>>, tuples |-> <<>>, sql |-> <<>>,
     type |-> "ResultSuccess", success |-> TRUE, rowsAffected |-> 0, inserted |-> 0,
     rows |-> <<>>]

\* NewExecutor(catalog, storage) on a catalog and a storage that hold TableT
\* already or not, each by itself
ExecInit ==
    /\ ecat \in {NewCatalog, CatalogCreateTable(NewCatalog, TableT, SchemaPK.columns).cat}
    /\ estore \in {NewStorage("memory"), NewStorage("disk"),
                   StorageCreateTable(NewStorage("memory"), TableT, SchemaPK).stor,
                   StorageCreateTable(NewStorage("disk"), TableT, SchemaPK).stor}
    /\ eres = NoERes
    /\ edropped = FALSE
    /\ eops = 0

\* db.New()
DBInit ==
    /\ ecat = NewCatalog
    /\ estore = NewStorage("memory")
    /\ eres = NoERes
    /\ edropped = FALSE
    /\ eops = 0

ExecReady == eops < MaxExecOps /\ eres.type # "panic"

\* a statement returned r
ExecCall(r, op, n, columns, tuples, sql, success) ==
    /\ ecat' = r.cat
    /\ estore' = r.stor
    /\ eres' = [op |-> op, table |-> n, columns |-> columns, tuples |-> tuples, sql |-> sql,
                type |-> r.type, success |-> success, rowsAffected |-> r.rowsAffected,
                inserted |-> r.inserted, rows |-> r.rows]
    /\ edropped' = IF op = "DropTable" /\ r.type = "ResultSuccess" THEN TRUE
                   ELSE IF op = "CreateTable" /\ r.type = "ResultSuccess" THEN FALSE
                   ELSE edropped
    /\ eops' = eops + 1

Returns(r, op, n, columns, tuples) ==
    ExecCall(r, op, n, columns, tuples, <<>>, r.type \in {"ResultSuccess", "ResultRows"})

XCreateTable(n, columns) ==
    ExecReady /\ Returns(executeCreateTable(ecat, estore, n, columns), "CreateTable", n, columns, <<>>)
XDropTable(n) ==
    ExecReady /\ Returns(executeDropTable(ecat, estore, n), "DropTable", n, <<>>, <<>>)
XInsert(n, columns, tuples) ==
    ExecReady /\ Returns(executeInsert(ecat, estore, n, columns, tuples), "Insert", n, columns, tuples)
XUpdate(n, values, condition) ==
    ExecReady /\ Returns(executeUpdate(ecat, estore, n, values, condition), "Update", n, <<>>, <<>>)
XDelete(n, condition) ==
    ExecReady /\ Returns(executeDelete(ecat, estore, n, condition), "Delete", n, <<>>, <<>>)
XSelect(n, columns, condition) ==
    ExecReady /\ Returns(executeSelect(ecat, estore, n, columns, condition), "Select", n, columns, <<>>)

\* DB.Execute(sql) returned r
DBReturns(r, sql) == ExecCall(r, "Execute", <<>>, <<>>, <<>>, sql, r.success)
DBExec(sql) == eops < MaxDBOps /\ DBReturns(DBExecute(ecat, estore, sql), sql)


\* ================================================================== SpecEval
\* binaryExpression.Eval and the filter of createFilterFunc applied to two
\* operand values, in both orders

\* fmt.Sscanf(str, "%d", &n): leading spaces skipped, optional sign, then at
\* least one decimal digit; what follows the digits is not read
SscanfInt(str) ==
    LET p == SkipSpace(str, 1)
        q == IF p <= Len(str) /\ str[p] \in {43, 45} THEN p + 1 ELSE p
    IN  IF q <= Len(str) /\ IsDigit(str[q])
        THEN [ok |-> TRUE,
              n |-> IF p <= Len(str) /\ str[p] = 45 THEN 0 - DigitsValue(str, q, 0)
                    ELSE DigitsValue(str, q, 0)]
        ELSE [ok |-> FALSE, n |-> 0]

\* binaryExpression.Eval with operator "=", on the values its operands gave
Eval(leftVal, rightVal) ==
    IF leftVal.type = TypeInt /\ rightVal.type = TypeInt
    THEN NewBoolValue(leftVal.i = rightVal.i)
    ELSE IF leftVal.type = TypeInt /\ rightVal.type = TypeString /\ SscanfInt(rightVal.s).ok
    THEN NewBoolValue(leftVal.i = SscanfInt(rightVal.s).n)
    ELSE IF leftVal.type = TypeString /\ rightVal.type = TypeString
    THEN NewBoolValue(leftVal.s = rightVal.s)
    ELSE IF leftVal.type = TypeString /\ rightVal.type = TypeInt
    THEN NewBoolValue(leftVal.s = FormatInt(rightVal.i))
    ELSE IF leftVal.type = TypeBool /\ rightVal.type = TypeBool
    THEN NewBoolValue(leftVal.b = rightVal.b)
    ELSE IF leftVal.type = TypeBool /\ rightVal.type = TypeString
    THEN NewBoolValue(leftVal.b = EqualFold(rightVal.s, <<116, 114, 117, 101>>))
    ELSE NewBoolValue(FALSE)

\* the function createFilterFunc returns, on the value of the expression
FilterFunc(result) == result.b

\* the operand values: 1, 12, 1.5, "1", "12", "12a", " 1", "1.5", "true", "a",
\* false, true, NULL
Operands ==
    {NewIntValue(1), NewIntValue(12), NewFloatValue(1, <<49, 46, 53>>),
     NewStringValue(<<49>>), NewStringValue(<<49, 50>>), NewStringValue(<<49, 50, 97>>),
     NewStringValue(<<32, 49>>), NewStringValue(<<49, 46, 53>>),
     NewStringValue(<<116, 114, 117, 101>>), NewStringValue(<<97>>),
     NewBoolValue(FALSE), NewBoolValue(TRUE), NewNullValue}

VARIABLES
    wleft,     \* the value of the left operand
    wright,    \* the value of the right operand
    wres       \* [st, val, rev, keep]: Eval of left = right, of right = left,
               \* and what the filter returned for left = right

evalVars == <<wleft, wright, wres>>

NoWRes == [st |-> "none", val |-> NewNullValue, rev |-> NewNullValue, keep |-> FALSE]

EvalInit ==
    /\ wleft \in Operands
    /\ wright \in Operands
    /\ wres = NoWRes

EvalIdle ==
    /\ wleft = NewNullValue
    /\ wright = NewNullValue
    /\ wres = NoWRes

WEval ==
    /\ wres.st = "none"
    /\ wres' = [st |-> "ok", val |-> Eval(wleft, wright), rev |-> Eval(wright, wleft),
                keep |-> FilterFunc(Eval(wleft, wright))]
    /\ UNCHANGED <<wleft, wright>>

\* =================================================================== SpecDDL
\* Goroutines calling Executor.Execute with CREATE TABLE and DROP TABLE
\* statements on one Executor over a MemoryCatalog and a MemoryStorage, both
\* empty at the start.  Every method of the catalog and of the storage runs
\* under the mutex of its object and is one step; the steps of the executions
\* interleave.  The position of an execution is the call it makes next.
MaxExecutors == 2    \* goroutines
MaxDDLCalls == 2     \* Execute calls of each goroutine

Executors == 1..MaxExecutors
TableU == <<117>>
DDLTables == {TableT, TableU}

VARIABLES
    xpc,       \* goroutine -> [pc, kind, table, res, calls]
    xcat,      \* the MemoryCatalog
    xms,       \* the MemoryStorage
    xover      \* some Execute call began while another one was in progress

ddlVars == <<xpc, xcat, xms, xover>>

XIdleFrame == [pc |-> "idle", kind |-> "none", table |-> <<>>, res |-> "none", calls |-> 0]

DDLIdle ==
    /\ xpc = [g \in {} |-> XIdleFrame]
    /\ xcat = NewCatalog
    /\ xms = NewMemoryStorage
    /\ xover = FALSE

DDLInit ==
    /\ xpc = [g \in Executors |-> XIdleFrame]
    /\ xcat = NewCatalog
    /\ xms = NewMemoryStorage
    /\ xover = FALSE

\* executeDropTable that returns after storage.DropTable
DDLGotoNoCatalogDrop(pc, ok) ==
    CASE pc = "create:catalog.CreateTable" -> IF ok THEN "create:catalog.GetTable" ELSE "idle"
      [] pc = "create:catalog.GetTable" -> IF ok THEN "create:storage.CreateTable" ELSE "idle"
      [] pc = "create:storage.CreateTable" -> IF ok THEN "idle" ELSE "create:catalog.DropTable"
      [] pc = "create:catalog.DropTable" -> "idle"
      [] pc = "drop:catalog.GetTable" -> IF ok THEN "drop:storage.DropTable" ELSE "idle"
      [] pc = "drop:storage.DropTable" -> "idle"
      [] pc = "drop:catalog.DropTable" -> "idle"

\* executeCreateTable and executeDropTable: the call that follows the call at
\* pc, which returned without error (ok) or with one; "idle" when the
\* execution returns
DDLGoto(pc, ok) ==
    CASE pc = "create:catalog.CreateTable" -> IF ok THEN "create:catalog.GetTable" ELSE "idle"
      [] pc = "create:catalog.GetTable" -> IF ok THEN "create:storage.CreateTable" ELSE "idle"
      [] pc = "create:storage.CreateTable" -> IF ok THEN "idle" ELSE "create:catalog.DropTable"
      [] pc = "create:catalog.DropTable" -> "idle"
      [] pc = "drop:catalog.GetTable" -> IF ok THEN "drop:storage.DropTable" ELSE "idle"
      [] pc = "drop:storage.DropTable" -> IF ok THEN "drop:catalog.DropTable" ELSE "idle"
      [] pc = "drop:catalog.DropTable" -> "idle"

\* the executionResult of an execution whose last call was the one at pc
DDLResult(pc, ok) ==
    IF ok /\ pc \in {"create:storage.CreateTable", "drop:catalog.DropTable"}
    THEN "ResultSuccess" ELSE "ResultError"

\* goroutine g goes on after its call returned
XGoto(g, ok) ==
    xpc' = [xpc EXCEPT ![g].pc = DDLGoto(xpc[g].pc, ok),
                       ![g].res = IF DDLGoto(xpc[g].pc, ok) = "idle"
                                  THEN DDLResult(xpc[g].pc, ok) ELSE "none"]

XAt(g, pcs) == g \in DOMAIN xpc /\ xpc[g].pc \in pcs

\* Execute(stmt) is called
XExecute(g, kind, table) ==
    /\ XAt(g, {"idle"}) /\ xpc[g].calls < MaxDDLCalls
    /\ xpc' = [xpc EXCEPT ![g] = [pc |-> IF kind = "create" THEN "create:catalog.CreateTable"
                                         ELSE "drop:catalog.GetTable",
                                  kind |-> kind, table |-> table, res |-> "none",
                                  calls |-> @.calls + 1]]
    /\ xover' = (xover \/ \E h \in Executors : xpc[h].pc # "idle")
    /\ UNCHANGED <<xcat, xms>>

XCatalogCreateTable(g) ==
    /\ XAt(g, {"create:catalog.CreateTable"})
    /\ xcat' = CatalogCreateTable(xcat, xpc[g].table, SchemaPK.columns).cat
    /\ XGoto(g, CatalogCreateTable(xcat, xpc[g].table, SchemaPK.columns).st = "ok")
    /\ UNCHANGED <<xms, xover>>

XCatalogGetTable(g) ==
    /\ XAt(g, {"create:catalog.GetTable", "drop:catalog.GetTable"})
    /\ XGoto(g, xpc[g].table \in DOMAIN xcat)
    /\ UNCHANGED <<xcat, xms, xover>>

\* storage.CreateTable with the schema GetTable returned (the catalog makes
\* one schema per table name and column list)
XStorageCreateTable(g) ==
    /\ XAt(g, {"create:storage.CreateTable"})
    /\ xms' = MemCreateTable(xms, xpc[g].table,
                             [name |-> xpc[g].table, columns |-> SchemaPK.columns]).ms
    /\ XGoto(g, MemCreateTable(xms, xpc[g].table,
                               [name |-> xpc[g].table, columns |-> SchemaPK.columns]).st = "ok")
    /\ UNCHANGED <<xcat, xover>>

XStorageDropTable(g) ==
    /\ XAt(g, {"drop:storage.DropTable"})
    /\ xms' = MemDropTable(xms, xpc[g].table).ms
    /\ XGoto(g, MemDropTable(xms, xpc[g].table).st = "ok")
    /\ UNCHANGED <<xcat, xover>>

\* catalog.DropTable, of executeDropTable or as the roll back of
\* executeCreateTable
XCatalogDropTable(g) ==
    /\ XAt(g, {"drop:catalog.DropTable", "create:catalog.DropTable"})
    /\ xcat' = CatalogDropTable(xcat, xpc[g].table).cat
    /\ XGoto(g, CatalogDropTable(xcat, xpc[g].table).st = "ok")
    /\ UNCHANGED <<xms, xover>>

\* ================================================================== SpecPins
\* The pins the B+ tree takes.  Every GetPage of the tree code pins the page
\* and bplustree.go never calls Unpin, so an operation leaves one pin for each
\* GetPage it made.  The trees of the initial states are built by Inserts of
\* the keys 1..n; ppins counts, per page, the pins taken since then.
MaxPinKey == 5       \* the initial tree holds the keys 1..n, n <= MaxPinKey
MaxPinOps == 2       \* operations per behaviour of SpecPins

RECURSIVE GrowTree(_)
GrowTree(n) ==
    IF n = 0 THEN CreateNewTree(NewPageManager(<<>>))
    ELSE TreeInsert(GrowTree(n - 1), <<n>>, <<0>>).t

\* the pages findLeafNode gets: the node, and in an internal node the node
\* once more in findChildNode, then the pages of the search below
RECURSIVE FindLeafPins(_, _, _)
FindLeafPins(t, nodeID, key) ==
    IF ~GetPageOk(t.pm, nodeID) THEN <<>>
    ELSE IF Data(t, nodeID)[1] = NodeTypeLeaf THEN <<nodeID>>
    ELSE <<nodeID, nodeID>>
         \o (IF findChildNode(Data(t, nodeID), key).ok
             THEN FindLeafPins(t, findChildNode(Data(t, nodeID), key).id, key)
             ELSE <<>>)

\* the pages Get gets: those of findLeafNode and the leaf
GetPins(t, key) ==
    FindLeafPins(t, t.rootPageID, key)
    \o (IF findLeafNode(t, t.rootPageID, key).st = "ok"
        THEN <<findLeafNode(t, t.rootPageID, key).id>> ELSE <<>>)

\* the pages Delete gets: those of findLeafNode, then the leaf in
\* deleteFromLeaf and once more in getLeafNodeEntries
DeletePins(t, key) ==
    FindLeafPins(t, t.rootPageID, key)
    \o (IF findLeafNode(t, t.rootPageID, key).st = "ok"
        THEN <<findLeafNode(t, t.rootPageID, key).id, findLeafNode(t, t.rootPageID, key).id>>
        ELSE <<>>)

\* the leaves the loop of FindRange gets, from leafNodeID on
RECURSIVE RangePins(_, _, _, _)
RangePins(t, leafNodeID, startKey, endKey) ==
    IF leafNodeID = 0 \/ ~GetPageOk(t.pm, leafNodeID) THEN <<>>
    ELSE <<leafNodeID>>
         \o (IF /\ RangeScan(Data(t, leafNodeID), startKey, endKey, NodeHeaderSize,
                             Uint32(Data(t, leafNodeID), 1), <<>>).st = "ok"
                /\ ~RangeScan(Data(t, leafNodeID), startKey, endKey, NodeHeaderSize,
                              Uint32(Data(t, leafNodeID), 1), <<>>).done
             THEN RangePins(t, Uint32(Data(t, leafNodeID), 5), startKey, endKey)
             ELSE <<>>)

\* the pages FindRange gets
FindRangePins(t, startKey, endKey) ==
    FindLeafPins(t, t.rootPageID, startKey)
    \o (IF findLeafNode(t, t.rootPageID, startKey).st = "ok"
        THEN RangePins(t, findLeafNode(t, t.rootPageID, startKey).id, startKey, endKey)
        ELSE <<>>)

VARIABLES
    ptree,     \* the tree
    ppins,     \* page id -> pins taken by the operations so far
    pcall,     \* the last operation: [op, st]
    pcalls     \* operations so far

pinVars == <<ptree, ppins, pcall, pcalls>>

PinKeys == {<<k>> : k \in 1..MaxPinKey}
NoPCall == [op |-> "none", st |-> "ok"]

PinIdle ==
    /\ ptree = CreateNewTree(NewPageManager(<<>>))
    /\ ppins = <<>>
    /\ pcall = NoPCall
    /\ pcalls = 0

PinInit ==
    /\ ptree \in {GrowTree(n) : n \in 0..MaxPinKey}
    /\ ppins = [p \in 0..(NumPages(ptree.pm) - 1) |-> 0]
    /\ pcall = NoPCall
    /\ pcalls = 0

\* the pin counts after GetPage returned each page of got
Pinned(pins, got) ==
    [p \in DOMAIN pins |-> pins[p] + Cardinality({i \in 1..Len(got) : got[i] = p})]

PinReady == pcalls < MaxPinOps /\ pcall.st # "panic"

NGet(k) ==
    /\ PinReady
    /\ pcall' = [op |-> "Get", st |-> TreeGet(ptree, k).st]
    /\ ppins' = Pinned(ppins, GetPins(ptree, k))
    /\ pcalls' = pcalls + 1
    /\ UNCHANGED ptree

NDelete(k) ==
    /\ PinReady
    /\ ptree' = TreeDelete(ptree, k).t
    /\ pcall' = [op |-> "Delete", st |-> TreeDelete(ptree, k).st]
    /\ ppins' = Pinned(ppins, DeletePins(ptree, k))
    /\ pcalls' = pcalls + 1

NFindRange(lo, hi) ==
    /\ PinReady
    /\ BytesCompare(lo, hi) <= 0
    /\ pcall' = [op |-> "FindRange", st |-> TreeFindRange(ptree, lo, hi).st]
    /\ ppins' = Pinned(ppins, FindRangePins(ptree, lo, hi))
    /\ pcalls' = pcalls + 1
    /\ UNCHANGED ptree

\* ========================================================== specifications
vars == <<treeVars, rowidVars, storeVars, pmVars, execVars, evalVars, lockVars, getVars, ddlVars, pinVars>>

\* the values the variables of a specification keep while another one runs
TreeIdle == TreeInit
RowIDIdle ==
    /\ pkSchema = NilSchema
    /\ rowA = EmptyRow
    /\ rowB = EmptyRow
    /\ idA = NoID
    /\ idB = NoID
    /\ cmp = NoCmp
    /\ dec = NoDec
StoreIdle ==
    /\ impl = "none"
    /\ ms = NewMemoryStorage
    /\ ds = NoDS
    /\ dopen = "closed"
    /\ files = NoFiles
    /\ sres = NoSRes
    /\ sops = 0
PMIdle == PMInit
ExecIdle == DBInit

\* every call of a specification leaves the variables of the others alone
TreeNext ==
    \/ (\E k \in Keys, v \in Vals : TInsert(k, v))
         /\ UNCHANGED <<rowidVars, storeVars, pmVars, execVars, evalVars, lockVars, getVars, ddlVars, pinVars>>
    \/ (\E k \in Keys : TDelete(k))
         /\ UNCHANGED <<rowidVars, storeVars, pmVars, execVars, evalVars, lockVars, getVars, ddlVars, pinVars>>
    \/ (\E k \in Keys : TGet(k))
         /\ UNCHANGED <<rowidVars, storeVars, pmVars, execVars, evalVars, lockVars, getVars, ddlVars, pinVars>>
    \/ (\E lo \in Keys, hi \in Keys : TFindRange(lo, hi))
         /\ UNCHANGED <<rowidVars, storeVars, pmVars, execVars, evalVars, lockVars, getVars, ddlVars, pinVars>>

GrowNext ==
    \/ (\E k \in GrowKeys : TInsertNew(k))
         /\ UNCHANGED <<rowidVars, storeVars, pmVars, execVars, evalVars, lockVars, getVars, ddlVars, pinVars>>

CapNext ==
    \/ (\E k \in Keys, v \in CapVals : CInsert(k, v))
         /\ UNCHANGED <<rowidVars, storeVars, pmVars, execVars, evalVars, lockVars, getVars, ddlVars, pinVars>>

RowIDNext ==
    \/ RCreateRowID
         /\ UNCHANGED <<treeVars, storeVars, pmVars, execVars, evalVars, lockVars, getVars, ddlVars, pinVars>>
    \/ RCompare
         /\ UNCHANGED <<treeVars, storeVars, pmVars, execVars, evalVars, lockVars, getVars, ddlVars, pinVars>>
    \/ RFromBytes
         /\ UNCHANGED <<treeVars, storeVars, pmVars, execVars, evalVars, lockVars, getVars, ddlVars, pinVars>>

StoreNext ==
    \/ (\E schema \in Schemas : MCreateTable(TableT, schema))
         /\ UNCHANGED <<treeVars, rowidVars, pmVars, execVars, evalVars, lockVars, getVars, ddlVars, pinVars>>
    \/ MDropTable(TableT)
         /\ UNCHANGED <<treeVars, rowidVars, pmVars, execVars, evalVars, lockVars, getVars, ddlVars, pinVars>>
    \/ (\E values \in InsertRows : MInsert(TableT, values))
         /\ UNCHANGED <<treeVars, rowidVars, pmVars, execVars, evalVars, lockVars, getVars, ddlVars, pinVars>>
    \/ (\E values \in SetValues, condition \in Conditions : MUpdate(TableT, values, condition))
         /\ UNCHANGED <<treeVars, rowidVars, pmVars, execVars, evalVars, lockVars, getVars, ddlVars, pinVars>>
    \/ (\E condition \in Conditions : MDelete(TableT, condition))
         /\ UNCHANGED <<treeVars, rowidVars, pmVars, execVars, evalVars, lockVars, getVars, ddlVars, pinVars>>
    \/ (\E columns \in SelectLists, condition \in Conditions : MSelect(TableT, columns, condition))
         /\ UNCHANGED <<treeVars, rowidVars, pmVars, execVars, evalVars, lockVars, getVars, ddlVars, pinVars>>
    \/ (\E schema \in Schemas : DCreateTable(TableT, schema))
         /\ UNCHANGED <<treeVars, rowidVars, pmVars, execVars, evalVars, lockVars, getVars, ddlVars, pinVars>>
    \/ DDropTable(TableT)
         /\ UNCHANGED <<treeVars, rowidVars, pmVars, execVars, evalVars, lockVars, getVars, ddlVars, pinVars>>
    \/ (\E values \in InsertRows : DInsert(TableT, values))
         /\ UNCHANGED <<treeVars, rowidVars, pmVars, execVars, evalVars, lockVars, getVars, ddlVars, pinVars>>
    \/ (\E values \in SetValues, condition \in Conditions : DUpdate(TableT, values, condition))
         /\ UNCHANGED <<treeVars, rowidVars, pmVars, execVars, evalVars, lockVars, getVars, ddlVars, pinVars>>
    \/ (\E condition \in Conditions : DDelete(TableT, condition))
         /\ UNCHANGED <<treeVars, rowidVars, pmVars, execVars, evalVars, lockVars, getVars, ddlVars, pinVars>>
    \/ (\E columns \in SelectLists, condition \in Conditions : DSelect(TableT, columns, condition))
         /\ UNCHANGED <<treeVars, rowidVars, pmVars, execVars, evalVars, lockVars, getVars, ddlVars, pinVars>>
    \/ DClose
         /\ UNCHANGED <<treeVars, rowidVars, pmVars, execVars, evalVars, lockVars, getVars, ddlVars, pinVars>>
    \/ DOpen
         /\ UNCHANGED <<treeVars, rowidVars, pmVars, execVars, evalVars, lockVars, getVars, ddlVars, pinVars>>

HeaderNext ==
    \/ HAllocatePage
         /\ UNCHANGED <<treeVars, rowidVars, storeVars, execVars, evalVars, lockVars, getVars, ddlVars, pinVars>>
    \/ (\E id \in 1..(MaxFreed + MaxHeaderOps) : HFreePage(id))
         /\ UNCHANGED <<treeVars, rowidVars, storeVars, execVars, evalVars, lockVars, getVars, ddlVars, pinVars>>
    \/ HReopen
         /\ UNCHANGED <<treeVars, rowidVars, storeVars, execVars, evalVars, lockVars, getVars, ddlVars, pinVars>>

PMLockNext ==
    \/ (\E flag \in BOOLEAN : PLCall("AllocatePage", 0, flag))
         /\ UNCHANGED <<treeVars, rowidVars, storeVars, execVars, evalVars, getVars, ddlVars, pinVars>>
    \/ (\E id \in PageIDs : PLCall("FreePage", id, TRUE))
         /\ UNCHANGED <<treeVars, rowidVars, storeVars, execVars, evalVars, getVars, ddlVars, pinVars>>
    \/ (\E id \in PageIDs : PLCall("GetPage", id, TRUE))
         /\ UNCHANGED <<treeVars, rowidVars, storeVars, execVars, evalVars, getVars, ddlVars, pinVars>>
    \/ (\E id \in PageIDs : PLCall("FlushPage", id, TRUE))
         /\ UNCHANGED <<treeVars, rowidVars, storeVars, execVars, evalVars, getVars, ddlVars, pinVars>>
    \/ PLCall("FlushAllPages", 0, TRUE)
         /\ UNCHANGED <<treeVars, rowidVars, storeVars, execVars, evalVars, getVars, ddlVars, pinVars>>
    \/ (\E id \in PageIDs : PLUnpin(id))
         /\ UNCHANGED <<treeVars, rowidVars, storeVars, execVars, evalVars, getVars, ddlVars, pinVars>>
    \/ PLReturn
         /\ UNCHANGED <<treeVars, rowidVars, storeVars, execVars, evalVars, getVars, ddlVars, pinVars>>
    \/ LLock
         /\ UNCHANGED <<treeVars, rowidVars, storeVars, pmVars, execVars, evalVars, getVars, ddlVars, pinVars>>
    \/ LRLock
         /\ UNCHANGED <<treeVars, rowidVars, storeVars, pmVars, execVars, evalVars, getVars, ddlVars, pinVars>>
    \/ LUnlock
         /\ UNCHANGED <<treeVars, rowidVars, storeVars, pmVars, execVars, evalVars, getVars, ddlVars, pinVars>>
    \/ LRUnlock
         /\ UNCHANGED <<treeVars, rowidVars, storeVars, pmVars, execVars, evalVars, getVars, ddlVars, pinVars>>
    \/ LEnter
         /\ UNCHANGED <<treeVars, rowidVars, storeVars, pmVars, execVars, evalVars, getVars, ddlVars, pinVars>>
    \/ LLeave
         /\ UNCHANGED <<treeVars, rowidVars, storeVars, pmVars, execVars, evalVars, getVars, ddlVars, pinVars>>

DiskLockNext ==
    \/ (\E fn \in {"CreateTable", "DropTable", "Insert", "Update", "Delete", "Select"} : DLCall(fn, TableT))
         /\ UNCHANGED <<treeVars, rowidVars, pmVars, execVars, evalVars, getVars, ddlVars, pinVars>>
    \/ DLReturnCreateTable
         /\ UNCHANGED <<treeVars, rowidVars, pmVars, execVars, evalVars, getVars, ddlVars, pinVars>>
    \/ DLReturnDropTable
         /\ UNCHANGED <<treeVars, rowidVars, pmVars, execVars, evalVars, getVars, ddlVars, pinVars>>
    \/ DLReturnInsert
         /\ UNCHANGED <<treeVars, rowidVars, pmVars, execVars, evalVars, getVars, ddlVars, pinVars>>
    \/ DLReturnUpdate
         /\ UNCHANGED <<treeVars, rowidVars, pmVars, execVars, evalVars, getVars, ddlVars, pinVars>>
    \/ DLReturnDelete
         /\ UNCHANGED <<treeVars, rowidVars, pmVars, execVars, evalVars, getVars, ddlVars, pinVars>>
    \/ DLReturnSelect
         /\ UNCHANGED <<treeVars, rowidVars, pmVars, execVars, evalVars, getVars, ddlVars, pinVars>>
    \/ LLock
         /\ UNCHANGED <<treeVars, rowidVars, storeVars, pmVars, execVars, evalVars, getVars, ddlVars, pinVars>>
    \/ LRLock
         /\ UNCHANGED <<treeVars, rowidVars, storeVars, pmVars, execVars, evalVars, getVars, ddlVars, pinVars>>
    \/ LUnlock
         /\ UNCHANGED <<treeVars, rowidVars, storeVars, pmVars, execVars, evalVars, getVars, ddlVars, pinVars>>
    \/ LRUnlock
         /\ UNCHANGED <<treeVars, rowidVars, storeVars, pmVars, execVars, evalVars, getVars, ddlVars, pinVars>>
    \/ LEnter
         /\ UNCHANGED <<treeVars, rowidVars, storeVars, pmVars, execVars, evalVars, getVars, ddlVars, pinVars>>
    \/ LLeave
         /\ UNCHANGED <<treeVars, rowidVars, storeVars, pmVars, execVars, evalVars, getVars, ddlVars, pinVars>>

GetNext ==
    \/ (\E g \in Readers, id \in 0..(GetPages - 1) : GCall(g, id))
         /\ UNCHANGED <<treeVars, rowidVars, storeVars, pmVars, execVars, evalVars, lockVars, ddlVars, pinVars>>
    \/ (\E g \in Readers : GRLock(g))
         /\ UNCHANGED <<treeVars, rowidVars, storeVars, pmVars, execVars, evalVars, lockVars, ddlVars, pinVars>>
    \/ (\E g \in Readers : GLookup(g))
         /\ UNCHANGED <<treeVars, rowidVars, storeVars, pmVars, execVars, evalVars, lockVars, ddlVars, pinVars>>
    \/ (\E g \in Readers : GPinRead(g))
         /\ UNCHANGED <<treeVars, rowidVars, storeVars, pmVars, execVars, evalVars, lockVars, ddlVars, pinVars>>
    \/ (\E g \in Readers : GPinWrite(g))
         /\ UNCHANGED <<treeVars, rowidVars, storeVars, pmVars, execVars, evalVars, lockVars, ddlVars, pinVars>>
    \/ (\E g \in Readers : GLoad(g))
         /\ UNCHANGED <<treeVars, rowidVars, storeVars, pmVars, execVars, evalVars, lockVars, ddlVars, pinVars>>
    \/ (\E g \in Readers : GLock(g))
         /\ UNCHANGED <<treeVars, rowidVars, storeVars, pmVars, execVars, evalVars, lockVars, ddlVars, pinVars>>
    \/ (\E g \in Readers : GRecheck(g))
         /\ UNCHANGED <<treeVars, rowidVars, storeVars, pmVars, execVars, evalVars, lockVars, ddlVars, pinVars>>
    \/ (\E g \in Readers : GReturn(g))
         /\ UNCHANGED <<treeVars, rowidVars, storeVars, pmVars, execVars, evalVars, lockVars, ddlVars, pinVars>>

DDLNext ==
    \/ (\E g \in Executors, kind \in {"create", "drop"}, table \in DDLTables : XExecute(g, kind, table))
         /\ UNCHANGED <<treeVars, rowidVars, storeVars, pmVars, execVars, evalVars, lockVars, getVars, pinVars>>
    \/ (\E g \in Executors : XCatalogCreateTable(g))
         /\ UNCHANGED <<treeVars, rowidVars, storeVars, pmVars, execVars, evalVars, lockVars, getVars, pinVars>>
    \/ (\E g \in Executors : XCatalogGetTable(g))
         /\ UNCHANGED <<treeVars, rowidVars, storeVars, pmVars, execVars, evalVars, lockVars, getVars, pinVars>>
    \/ (\E g \in Executors : XStorageCreateTable(g))
         /\ UNCHANGED <<treeVars, rowidVars, storeVars, pmVars, execVars, evalVars, lockVars, getVars, pinVars>>
    \/ (\E g \in Executors : XStorageDropTable(g))
         /\ UNCHANGED <<treeVars, rowidVars, storeVars, pmVars, execVars, evalVars, lockVars, getVars, pinVars>>
    \/ (\E g \in Executors : XCatalogDropTable(g))
         /\ UNCHANGED <<treeVars, rowidVars, storeVars, pmVars, execVars, evalVars, lockVars, getVars, pinVars>>

PinNext ==
    \/ (\E k \in PinKeys : NGet(k))
         /\ UNCHANGED <<treeVars, rowidVars, storeVars, pmVars, execVars, evalVars, lockVars, getVars, ddlVars>>
    \/ (\E k \in PinKeys : NDelete(k))
         /\ UNCHANGED <<treeVars, rowidVars, storeVars, pmVars, execVars, evalVars, lockVars, getVars, ddlVars>>
    \/ (\E lo \in PinKeys, hi \in PinKeys : NFindRange(lo, hi))
         /\ UNCHANGED <<treeVars, rowidVars, storeVars, pmVars, execVars, evalVars, lockVars, getVars, ddlVars>>

PMNext ==
    \/ PAllocatePage
         /\ UNCHANGED <<treeVars, rowidVars, storeVars, execVars, evalVars, lockVars, getVars, ddlVars, pinVars>>
    \/ (\E id \in PageIDs : PFreePage(id))
         /\ UNCHANGED <<treeVars, rowidVars, storeVars, execVars, evalVars, lockVars, getVars, ddlVars, pinVars>>
    \/ (\E id \in PageIDs : PGetPage(id))
         /\ UNCHANGED <<treeVars, rowidVars, storeVars, execVars, evalVars, lockVars, getVars, ddlVars, pinVars>>
    \/ (\E id \in PageIDs : PUnpin(id))
         /\ UNCHANGED <<treeVars, rowidVars, storeVars, execVars, evalVars, lockVars, getVars, ddlVars, pinVars>>
    \/ (\E id \in PageIDs : PFlushPage(id))
         /\ UNCHANGED <<treeVars, rowidVars, storeVars, execVars, evalVars, lockVars, getVars, ddlVars, pinVars>>
    \/ PFlushAllPages
         /\ UNCHANGED <<treeVars, rowidVars, storeVars, execVars, evalVars, lockVars, getVars, ddlVars, pinVars>>

ExecNext ==
    \/ (\E columns \in ColumnLists : XCreateTable(TableT, columns))
         /\ UNCHANGED <<treeVars, rowidVars, storeVars, pmVars, evalVars, lockVars, getVars, ddlVars, pinVars>>
    \/ XDropTable(TableT)
         /\ UNCHANGED <<treeVars, rowidVars, storeVars, pmVars, evalVars, lockVars, getVars, ddlVars, pinVars>>
    \/ (\E columns \in InsertColumns, tuples \in TupleLists : XInsert(TableT, columns, tuples))
         /\ UNCHANGED <<treeVars, rowidVars, storeVars, pmVars, evalVars, lockVars, getVars, ddlVars, pinVars>>
    \/ (\E values \in SetValues, condition \in Conditions : XUpdate(TableT, values, condition))
         /\ UNCHANGED <<treeVars, rowidVars, storeVars, pmVars, evalVars, lockVars, getVars, ddlVars, pinVars>>
    \/ (\E condition \in Conditions : XDelete(TableT, condition))
         /\ UNCHANGED <<treeVars, rowidVars, storeVars, pmVars, evalVars, lockVars, getVars, ddlVars, pinVars>>
    \/ (\E columns \in SelectLists, condition \in Conditions : XSelect(TableT, columns, condition))
         /\ UNCHANGED <<treeVars, rowidVars, storeVars, pmVars, evalVars, lockVars, getVars, ddlVars, pinVars>>

DBNext ==
    \/ (\E sql \in SqlTexts : DBExec(sql))
         /\ UNCHANGED <<treeVars, rowidVars, storeVars, pmVars, evalVars, lockVars, getVars, ddlVars, pinVars>>

EvalNext ==
    \/ WEval
         /\ UNCHANGED <<treeVars, rowidVars, storeVars, pmVars, execVars, lockVars, getVars, ddlVars, pinVars>>

SpecTreeInit == TreeInit /\ RowIDIdle /\ StoreIdle /\ PMIdle /\ ExecIdle /\ EvalIdle /\ LockIdle /\ GetIdle /\ DDLIdle /\ PinIdle
SpecRowIDInit == RowIDInit /\ TreeIdle /\ StoreIdle /\ PMIdle /\ ExecIdle /\ EvalIdle /\ LockIdle /\ GetIdle /\ DDLIdle /\ PinIdle
SpecStorageInit == StoreInit /\ TreeIdle /\ RowIDIdle /\ PMIdle /\ ExecIdle /\ EvalIdle /\ LockIdle /\ GetIdle /\ DDLIdle /\ PinIdle
SpecHeaderInit == HeaderInit /\ TreeIdle /\ RowIDIdle /\ StoreIdle /\ ExecIdle /\ EvalIdle /\ LockIdle /\ GetIdle /\ DDLIdle /\ PinIdle
SpecPMLockInit == PMLockInit /\ TreeIdle /\ RowIDIdle /\ StoreIdle /\ ExecIdle /\ EvalIdle /\ GetIdle /\ DDLIdle /\ PinIdle
SpecDiskLockInit == DiskLockInit /\ TreeIdle /\ RowIDIdle /\ PMIdle /\ ExecIdle /\ EvalIdle /\ GetIdle /\ DDLIdle /\ PinIdle
SpecGetPageInit == GetInit /\ TreeIdle /\ RowIDIdle /\ StoreIdle /\ PMIdle /\ ExecIdle /\ EvalIdle /\ LockIdle /\ DDLIdle /\ PinIdle
SpecDDLInit == DDLInit /\ TreeIdle /\ RowIDIdle /\ StoreIdle /\ PMIdle /\ ExecIdle /\ EvalIdle /\ LockIdle /\ GetIdle /\ PinIdle
SpecPinsInit == PinInit /\ TreeIdle /\ RowIDIdle /\ StoreIdle /\ PMIdle /\ ExecIdle /\ EvalIdle /\ LockIdle /\ GetIdle /\ DDLIdle
SpecPMInit == PMInit /\ TreeIdle /\ RowIDIdle /\ StoreIdle /\ ExecIdle /\ EvalIdle /\ LockIdle /\ GetIdle /\ DDLIdle /\ PinIdle
SpecExecInit == ExecInit /\ TreeIdle /\ RowIDIdle /\ StoreIdle /\ PMIdle /\ EvalIdle /\ LockIdle /\ GetIdle /\ DDLIdle /\ PinIdle
SpecEvalInit == EvalInit /\ TreeIdle /\ RowIDIdle /\ StoreIdle /\ PMIdle /\ ExecIdle /\ LockIdle /\ GetIdle /\ DDLIdle /\ PinIdle
SpecDBInit == DBInit /\ TreeIdle /\ RowIDIdle /\ StoreIdle /\ PMIdle /\ EvalIdle /\ LockIdle /\ GetIdle /\ DDLIdle /\ PinIdle

SpecTree == SpecTreeInit /\ [][TreeNext]_vars
SpecGrow == SpecTreeInit /\ [][GrowNext]_vars
SpecCapacity == SpecTreeInit /\ [][CapNext]_vars
SpecRowID == SpecRowIDInit /\ [][RowIDNext]_vars
SpecStorage == SpecStorageInit /\ [][StoreNext]_vars
SpecHeader == SpecHeaderInit /\ [][HeaderNext]_vars
SpecPMLock == SpecPMLockInit /\ [][PMLockNext]_vars
SpecDiskLock == SpecDiskLockInit /\ [][DiskLockNext]_vars
SpecGetPage == SpecGetPageInit /\ [][GetNext]_vars
SpecDDL == SpecDDLInit /\ [][DDLNext]_vars
SpecPins == SpecPinsInit /\ [][PinNext]_vars
SpecPM == SpecPMInit /\ [][PMNext]_vars
SpecExec == SpecExecInit /\ [][ExecNext]_vars
SpecDB == SpecDBInit /\ [][DBNext]_vars
SpecEval == SpecEvalInit /\ [][EvalNext]_vars

\* =================================================== properties of SpecStorage
\* what a full Select on table n returns: [st, rows, ...]
FullSelect(i, m, d, n) ==
    IF i = "memory" THEN MemSelect(m, n, <<>>, AllRows) ELSE DiskSelect(d, n, <<>>, AllRows)

CountOf(rows, row) == Cardinality({k \in 1..Len(rows) : rows[k] = row})
ElementsOf(rows) == {rows[k] : k \in 1..Len(rows)}
\* the same rows, each as often, in any order
SameRows(rows1, rows2) ==
    /\ Len(rows1) = Len(rows2)
    /\ \A row \in ElementsOf(rows1) \cup ElementsOf(rows2) : CountOf(rows1, row) = CountOf(rows2, row)

\* row with the columns in values replaced and its other columns unchanged
Replaced(row, values) ==
    [c \in DOMAIN row \cup DOMAIN values |-> IF c \in DOMAIN values THEN values[c] ELSE row[c]]
MatchCount(rows, condition) == Cardinality({k \in 1..Len(rows) : Match(condition, rows[k])})
UpdatedRows(rows, values, condition) ==
    [k \in 1..Len(rows) |->
        IF Match(condition, rows[k]) THEN Replaced(rows[k], values) ELSE rows[k]]
RECURSIVE RemainingRows(_, _)
RemainingRows(rows, condition) ==
    IF rows = <<>> THEN <<>>
    ELSE IF Match(condition, Head(rows)) THEN RemainingRows(Tail(rows), condition)
    ELSE <<Head(rows)>> \o RemainingRows(Tail(rows), condition)

\* the row-id of the row a = n in a table of schema SchemaPK
RowIDA(n) == createRowID(RowA(n), SchemaPK).bytes
\* the rows whose row-id under schema is (same = TRUE) or is not rowID
RECURSIVE RowsWithID(_, _, _, _)
RowsWithID(rows, schema, rowID, same) ==
    IF rows = <<>> THEN <<>>
    ELSE IF (createRowID(Head(rows), schema) = [st |-> "ok", bytes |-> rowID]) = same
    THEN <<Head(rows)>> \o RowsWithID(Tail(rows), schema, rowID, same)
    ELSE RowsWithID(Tail(rows), schema, rowID, same)

\* C3: durability under clean shutdown: when a DiskStorage was closed and
\* NewDiskStorage is called on the same directory, the call succeeds, every
\* table of the closed storage is there again, and a full Select on it returns
\* exactly the rows a full Select returned before Close.
C3_ReopenKeepsRows ==
    [][(impl = "disk" /\ sres'.op = "Open")
        => /\ sres'.st = "ok"
           /\ \A n \in DOMAIN ds.tables :
                 /\ n \in DOMAIN ds'.tables
                 /\ DiskSelect(ds, n, <<>>, AllRows).st = "ok"
                      => /\ DiskSelect(ds', n, <<>>, AllRows).st = "ok"
                         /\ SameRows(DiskSelect(ds', n, <<>>, AllRows).rows,
                                     DiskSelect(ds, n, <<>>, AllRows).rows)]_vars

\* C5: DiskStorage.Update that rewrites the primary key: when table t(a INT
\* PRIMARY KEY, b) holds an entry under the row-id of a = 1 and none under the
\* row-id of a = 2, Update(t, SET a = 2, WHERE a = 1) returns count 1 and no
\* error; afterwards the tree has no entry under the row-id of a = 1 and the
\* entry under the row-id of a = 2 holds the merged row (whose serialization
\* is that of the old row: the same columns).
C5_UpdateRewritesPrimaryKey ==
    [][(/\ impl = "disk" /\ sres'.op = "Update" /\ sres'.table = TableT
        /\ sres'.values = RowA(2) /\ sres'.condition = ColumnEquals(ColA, NewIntValue(1))
        /\ TableT \in DOMAIN ds.tables /\ ds.tables[TableT].Schema = SchemaPK
        /\ TreeGet(ds.tables[TableT].IndexTree, RowIDA(1)).st = "ok"
        /\ TreeGet(ds.tables[TableT].IndexTree, RowIDA(2)).st = "err")
        => /\ sres'.st = "ok" /\ sres'.count = 1
           /\ TreeGet(ds'.tables[TableT].IndexTree, RowIDA(1)).st = "err"
           /\ TreeGet(ds'.tables[TableT].IndexTree, RowIDA(2))
                = TreeGet(ds.tables[TableT].IndexTree, RowIDA(1))]_vars

C8_InsertOverwrites ==
    [][(/\ impl = "disk" /\ sres'.op = "Insert" /\ sres'.st = "ok"
        /\ TreeGet(ds.tables[sres'.table].IndexTree,
                   createRowID(sres'.values, ds.tables[sres'.table].Schema).bytes).st = "ok")
        => /\ DiskSelect(ds', sres'.table, <<>>, AllRows).st = "ok"
           /\ RowsWithID(DiskSelect(ds', sres'.table, <<>>, AllRows).rows,
                         ds.tables[sres'.table].Schema,
                         createRowID(sres'.values, ds.tables[sres'.table].Schema).bytes, TRUE)
                = <<sres'.values>>
           /\ DiskSelect(ds, sres'.table, <<>>, AllRows).st = "ok"
                => SameRows(RowsWithID(DiskSelect(ds', sres'.table, <<>>, AllRows).rows,
                                       ds.tables[sres'.table].Schema,
                                       createRowID(sres'.values,
                                                   ds.tables[sres'.table].Schema).bytes, FALSE),
                            RowsWithID(DiskSelect(ds, sres'.table, <<>>, AllRows).rows,
                                       ds.tables[sres'.table].Schema,
                                       createRowID(sres'.values,
                                                   ds.tables[sres'.table].Schema).bytes, FALSE))]_vars

\* the number of entries in the leaves of tree t, along the leaf chain from
\* the leftmost leaf (at most one visit per page)
RECURSIVE LeafChainCount(_, _, _)
LeafChainCount(t, leafNodeID, left) ==
    IF leafNodeID = 0 \/ left = 0 \/ ~GetPageOk(t.pm, leafNodeID) THEN 0
    ELSE Uint32(Data(t, leafNodeID), 1)
           + LeafChainCount(t, Uint32(Data(t, leafNodeID), 5), left - 1)
StoredEntries(t) ==
    LeafChainCount(t, findLeafNode(t, t.rootPageID, <<0>>).id, NumPages(t.pm))

\* C11: in a DiskStorage table whose schema has no PrimaryKey column every
\* successful Insert stores a new row under a fresh row-id: the tree holds one
\* entry more than before the call, also when the inserted row equals a row
\* already stored.
C11_InsertAddsRow ==
    [][(/\ impl = "disk" /\ sres'.op = "Insert" /\ sres'.st = "ok"
        /\ getPrimaryKeyColumns(ds.tables[sres'.table].Schema) = <<>>)
        => StoredEntries(ds'.tables[sres'.table].IndexTree)
             = StoredEntries(ds.tables[sres'.table].IndexTree) + 1]_vars

\* ------------------------------------------------------- properties of SpecPM
\* C12: in any page-manager state, FreePage(p.ID()) right after a successful
\* p := AllocatePage() succeeds, and the AllocatePage after that free returns a
\* page with the same id and leaves numPages as it is.
C12_AllocateFreeAllocate ==
    [][/\ (/\ pres.op = "AllocatePage" /\ pres.st = "ok"
           /\ pres'.op = "FreePage" /\ pres'.id = pres.id /\ pops' = pops + 1)
          => pres'.st = "ok"
       /\ (/\ pres2.op = "AllocatePage" /\ pres2.st = "ok"
           /\ pres.op = "FreePage" /\ pres.st = "ok" /\ pres.id = pres2.id
           /\ pres'.op = "AllocatePage" /\ pops' = pops + 1)
          => /\ pres'.st = "ok"
             /\ pres'.id = pres.id
             /\ pmgr'.numPages = pmgr.numPages]_vars

\* the header page of the cache holds numPages and the free list of mgr
HeaderMatches(mgr) ==
    /\ 0 \in DOMAIN mgr.pageCache
    /\ mgr.pageCache[0].dirty
    /\ Uint32(mgr.pageCache[0].data, 0) = mgr.numPages
    /\ Uint32(mgr.pageCache[0].data, 4) = Len(mgr.freePages)
    /\ \A i \in 1..Len(mgr.freePages) :
          /\ 8 + 4 * i <= PageSize
          /\ Uint32(mgr.pageCache[0].data, 8 + 4 * (i - 1)) = mgr.freePages[i]

\* C13: whenever AllocatePage returns without error, the id of the page is the
\* most recently freed id if the free list was non-empty and the previous
\* numPages otherwise (numPages then grew by one); the page is the cache entry
\* of its id, zero-filled, dirty, with pin count 1; and the cached header page
\* is dirty and holds the numPages and the free list of the manager.
C13_AllocatedPage ==
    [][(pres'.op = "AllocatePage" /\ pres'.st = "ok" /\ pops' = pops + 1)
        => /\ IF Len(pmgr.freePages) > 0
              THEN pres'.id = pmgr.freePages[Len(pmgr.freePages)]
              ELSE pres'.id = pmgr.numPages /\ pmgr'.numPages = pmgr.numPages + 1
           /\ pres'.id \in DOMAIN pmgr'.pageCache
           /\ pmgr'.pageCache[pres'.id] = NewPage(ZeroPage, TRUE, 1)
           /\ HeaderMatches(pmgr')]_vars

\* C14: FreePage(id) on a cached page whose pin count is above zero returns an
\* error and leaves the cache, the free list, numPages, the header page and
\* the file as they were.
C14_FreePinnedPage ==
    [][(/\ pres'.op = "FreePage" /\ pops' = pops + 1
        /\ pres'.id \in DOMAIN pmgr.pageCache
        /\ pmgr.pageCache[pres'.id].pinCount > 0)
        => pres'.st = "err" /\ pmgr' = pmgr]_vars

\* FreePage has refused a pinned page other than the header, with a page on
\* the free list
C14_RefusedPinnedPage ==
    /\ pres.op = "FreePage" /\ pres.st = "err" /\ pres.id # 0
    /\ pres.id \in DOMAIN pmgr.pageCache
    /\ pmgr.pageCache[pres.id].pinCount > 0
    /\ Len(pmgr.freePages) > 0

\* ----------------------------------------------------- properties of SpecExec
\* the Storage holds a table of this name
StorageHasTable(stor, n) ==
    IF stor.impl = "memory" THEN n \in DOMAIN stor.ms.tables ELSE n \in DOMAIN stor.ds.tables

\* the step is the execution of the statement op
Executes(op) == eops' = eops + 1 /\ eres'.op = op

\* C15: when catalog.CreateTable succeeds and storage.CreateTable fails,
\* Executor.Execute returns a ResultError and the catalog does not contain the
\* table afterwards.
C15_CreateTableRollback ==
    [][(/\ Executes("CreateTable")
        /\ eres'.table \notin DOMAIN ecat
        /\ StorageCreateTable(estore, eres'.table,
                              [name |-> eres'.table, columns |-> eres'.columns]).st = "err")
        => /\ eres'.type = "ResultError"
           /\ eres'.table \notin DOMAIN ecat']_vars

\* CREATE TABLE has failed in the storage, which holds the table, and the
\* catalog is without it
C15_RolledBack ==
    /\ eres.op = "CreateTable" /\ eres.type = "ResultError"
    /\ eres.table \notin DOMAIN ecat
    /\ StorageHasTable(estore, eres.table)

\* C16: CREATE TABLE of a table that exists fails (Catalog.CreateTable returns
\* an error for a name of the catalog, the Executor returns a ResultError) and
\* leaves the schema and the rows as they were; DROP TABLE of a table that
\* does not exist fails and leaves the catalog and the storage as they were.
C16_ExistingAndMissingTable ==
    [][/\ (Executes("CreateTable")
            /\ (eres'.table \in DOMAIN ecat \/ StorageHasTable(estore, eres'.table)))
          => /\ eres'.type = "ResultError"
             /\ eres'.table \in DOMAIN ecat
                  => CatalogCreateTable(ecat, eres'.table, eres'.columns)
                       = [st |-> "err", cat |-> ecat]
             /\ ecat' = ecat /\ estore' = estore
       /\ (Executes("DropTable")
            /\ (eres'.table \notin DOMAIN ecat \/ ~StorageHasTable(estore, eres'.table)))
          => /\ eres'.type = "ResultError"
             /\ eres'.table \notin DOMAIN ecat
                  => CatalogDropTable(ecat, eres'.table) = [st |-> "err", cat |-> ecat]
             /\ ecat' = ecat /\ estore' = estore]_vars

\* CREATE TABLE has failed on a table of the catalog that holds a row
C16_ExistingTableKept ==
    /\ eres.op = "CreateTable" /\ eres.type = "ResultError"
    /\ eres.table \in DOMAIN ecat
    /\ estore.impl = "memory"
    /\ eres.table \in DOMAIN estore.ms.tables
    /\ Len(estore.ms.tables[eres.table]) > 0

\* C17: after a DROP TABLE t that succeeded, every INSERT, UPDATE, DELETE,
\* SELECT and DROP on t returns an error result until t is created again, and
\* the next CREATE TABLE t succeeds and yields an empty table.
C17_DroppedTable ==
    [][/\ (edropped /\ eops' = eops + 1
            /\ eres'.op \in {"Insert", "Update", "Delete", "Select", "DropTable"})
          => eres'.type = "ResultError"
       /\ (edropped /\ Executes("CreateTable"))
          => /\ eres'.type = "ResultSuccess"
             /\ executeSelect(ecat', estore', eres'.table, <<>>, AllRows).type = "ResultRows"
             /\ executeSelect(ecat', estore', eres'.table, <<>>, AllRows).rows = <<>>]_vars

\* a statement on the dropped table has returned an error
C17_FailedOnDropped ==
    /\ edropped
    /\ eres.op \in {"Insert", "Select"}
    /\ eres.type = "ResultError"

\* C18: when a tuple of a multi-row INSERT fails (its arity differs from the
\* column list or storage.Insert returns an error) after j tuples were
\* inserted, the result is an error with RowsAffected = j, the j rows remain
\* stored (shown on the rows of a MemoryStorage) and no later tuple is
\* inserted.
C18_InsertStopsAtFailure ==
    [][(/\ Executes("Insert") /\ eres'.type = "ResultError"
        /\ eres'.table \in DOMAIN ecat
        /\ \A i \in 1..Len(eres'.columns) : HasColumn(ecat[eres'.table], eres'.columns[i]))
        => /\ eres'.rowsAffected = eres'.inserted
           /\ (estore.impl = "memory" /\ eres'.table \in DOMAIN estore.ms.tables)
                => estore'.ms.tables[eres'.table]
                     = estore.ms.tables[eres'.table]
                         \o [i \in 1..eres'.inserted |->
                                PrepareRow(eres'.columns, eres'.tuples[i])]]_vars

\* C19: through DB.Execute, after CREATE TABLE t (id INT PRIMARY KEY, name
\* TEXT NOT NULL) the statement INSERT INTO t (id) VALUES (1) returns an
\* unsuccessful result and the table still has no row.
C19_NotNullThroughSQL ==
    [][(/\ eres.op = "Execute" /\ eres.sql = SqlCreateT /\ eres.success
        /\ Executes("Execute") /\ eres'.sql = SqlInsertId)
        => /\ ~eres'.success
           /\ estore'.ms.tables[<<116>>] = <<>>]_vars

\* the columns Select is asked for in a table of this schema: those of the
\* schema for "*", the listed ones otherwise
Requested(schema, columns) ==
    IF columns = <<<<42>>>> THEN ColumnNames(schema)
    ELSE {columns[k] : k \in 1..Len(columns)}

\* result is the stored row projected to the columns asked for
Projects(result, row, schema, columns) ==
    /\ columns = <<>> => result = row
    /\ columns # <<>> => DOMAIN result = Requested(schema, columns)
    /\ \A c \in DOMAIN result \cap DOMAIN row : result[c] = row[c]

\* the rows of a sequence that satisfy the condition, in their order
RECURSIVE Matching(_, _)
Matching(rows, condition) ==
    IF rows = <<>> THEN <<>>
    ELSE IF Match(condition, Head(rows)) THEN <<Head(rows)>> \o Matching(Tail(rows), condition)
    ELSE Matching(Tail(rows), condition)

\* C20: projection.  For each Storage implementation a Select on a table, with
\* an empty column list, with ["*"] or with a list of columns of the schema,
\* yields the stored rows that satisfy the predicate and no others, each with
\* every column stored for it (all columns of the schema for "*") or with
\* exactly the listed columns.  The stored rows of a MemoryStorage are those
\* of s.tables; of a DiskStorage the number of stored rows is taken from the
\* leaves of the tree.
C20_Projection ==
    [][(/\ sres'.op = "Select"
        /\ IF impl = "memory" THEN sres'.table \in DOMAIN ms.tables
           ELSE sres'.table \in DOMAIN ds.tables
        /\ sres'.columns \in {<<>>, <<<<42>>>>}
             \/ \A k \in 1..Len(sres'.columns) :
                   sres'.columns[k]
                     \in ColumnNames(IF impl = "memory" THEN ms.schemas[sres'.table]
                                     ELSE ds.tables[sres'.table].Schema))
        => /\ sres'.st = "ok"
           /\ impl = "memory"
                => /\ Len(sres'.rows) = Len(Matching(ms.tables[sres'.table], sres'.condition))
                   /\ \A k \in 1..Len(sres'.rows) :
                         Projects(sres'.rows[k],
                                  Matching(ms.tables[sres'.table], sres'.condition)[k],
                                  ms.schemas[sres'.table], sres'.columns)
           /\ impl = "disk"
                => /\ sres'.condition = AllRows
                        => Len(sres'.rows) = StoredEntries(ds.tables[sres'.table].IndexTree)
                   /\ \A k \in 1..Len(sres'.rows) :
                         sres'.columns # <<>>
                           => DOMAIN sres'.rows[k]
                                = Requested(ds.tables[sres'.table].Schema, sres'.columns)]_vars

\* C21: row-id codec round trip: for the composite row-id of a row whose
\* primary key has 1..MaxPKLen values of the declared key types (Int, Float,
\* String, Bool), FromBytes of its Bytes succeeds and returns a row-id with the
\* same types and values, for which Compare against the original returns 0.
C21_RowIDRoundTrip ==
    dec.st # "none"
    => /\ dec.st = "ok"
       /\ dec.id.types = RowIDOf(rowA, pkSchema).types
       /\ dec.id.values = RowIDOf(rowA, pkSchema).values
       /\ Compare(dec.id, RowIDOf(rowA, pkSchema)) = 0

\* ====================================================== properties of SpecEval
\* the text is a decimal numeral of the numeric value: of an Int its digits
\* with an optional sign, of a Float its decimal text
ParsesTo(str, v) ==
    \/ /\ v.type = TypeInt
       /\ SscanfInt(str).ok
       /\ SscanfInt(str).n = v.i
       /\ SkipDigits(str, IF str[1] \in {43, 45} THEN 2 ELSE 1) = Len(str) + 1
    \/ /\ v.type = TypeFloat
       /\ str = v.s

\* left = right as the WHERE clause is to read it
SameValue(l, r) ==
    \/ /\ l.type = r.type
       /\ l = r
    \/ /\ l.type = TypeString
       /\ ParsesTo(l.s, r)
    \/ /\ r.type = TypeString
       /\ ParsesTo(r.s, l)

\* C22: WHERE equality: for operands of the types Int, Float, String and
\* Bool, left = right yields Bool true exactly when the type tags agree and
\* the payloads are equal, or when one side is a String that decimally parses
\* to the other, numeric side, and Bool false otherwise; the result does not
\* depend on the order of the operands, and the filter keeps the row exactly
\* when the result is true.
C22_WhereEquality ==
    (wres.st = "ok" /\ wleft.type # TypeNull /\ wright.type # TypeNull)
    => /\ wres.val.type = TypeBool
       /\ wres.val.b <=> SameValue(wleft, wright)
       /\ wres.rev = wres.val
       /\ wres.keep <=> SameValue(wleft, wright)

\* ============================================ properties of the tree structure
\* the nodes below (and including) page id, each with its depth below the
\* root: the set of <<page id, depth>>; fuel bounds the descent
RECURSIVE NodesBelow(_, _, _, _)
NodesBelow(t, id, depth, fuel) ==
    IF fuel = 0 \/ ~GetPageOk(t.pm, id) THEN {}
    ELSE IF Data(t, id)[1] # NodeTypeNonLeaf \/ ~ReadNonLeaf(Data(t, id)).ok THEN {<<id, depth>>}
    ELSE {<<id, depth>>} \cup
         UNION {NodesBelow(t, ReadNonLeaf(Data(t, id)).childPtrs[i], depth + 1, fuel - 1) :
                    i \in 1..Len(ReadNonLeaf(Data(t, id)).childPtrs)}

TreeNodes(t) == NodesBelow(t, t.rootPageID, 0, NumPages(t.pm))
TreeLeaves(t) == {n[1] : n \in {x \in TreeNodes(t) : Data(t, x[1])[1] = NodeTypeLeaf}}
TreeInternals(t) == {n[1] : n \in {x \in TreeNodes(t) : Data(t, x[1])[1] = NodeTypeNonLeaf}}

\* the keys of a leaf page, in page order
LeafKeys(t, id) ==
    [i \in 1..Len(getLeafNodeEntries(Data(t, id)).entries) |->
        getLeafNodeEntries(Data(t, id)).entries[i].key]

\* the leaf reached from page id by first child pointers
RECURSIVE LeftmostLeaf(_, _, _)
LeftmostLeaf(t, id, fuel) ==
    IF fuel = 0 \/ ~GetPageOk(t.pm, id) \/ Data(t, id)[1] # NodeTypeNonLeaf THEN id
    ELSE LeftmostLeaf(t, Uint32(Data(t, id), NodeHeaderSize), fuel - 1)

\* the pages visited from leaf id by next_page_id, until 0
RECURSIVE LeafChain(_, _, _)
LeafChain(t, id, fuel) ==
    IF id = 0 \/ fuel = 0 \/ ~GetPageOk(t.pm, id) THEN <<>>
    ELSE <<id>> \o LeafChain(t, Uint32(Data(t, id), 5), fuel - 1)

TreeChain(t) == LeafChain(t, LeftmostLeaf(t, t.rootPageID, NumPages(t.pm)), NumPages(t.pm))

RECURSIVE ChainKeys(_, _)
ChainKeys(t, chain) ==
    IF chain = <<>> THEN <<>> ELSE LeafKeys(t, chain[1]) \o ChainKeys(t, Tail(chain))

StrictlyIncreasing(keys) ==
    \A i \in 1..(Len(keys) - 1) : BytesCompare(keys[i], keys[i + 1]) < 0

LeafChainOrdered(t) ==
    /\ \A id \in TreeLeaves(t) : StrictlyIncreasing(LeafKeys(t, id))
    /\ \A id \in TreeLeaves(t) : \E i \in 1..Len(TreeChain(t)) : TreeChain(t)[i] = id
    /\ \A i \in 1..Len(TreeChain(t)), j \in 1..Len(TreeChain(t)) :
            TreeChain(t)[i] = TreeChain(t)[j] => i = j
    /\ \A i \in 1..Len(TreeChain(t)) : Data(t, TreeChain(t)[i])[1] = NodeTypeLeaf
    /\ StrictlyIncreasing(ChainKeys(t, TreeChain(t)))

\* C23: leaf-chain order: the keys of each leaf are strictly increasing, and
\* following next_page_id from the leftmost leaf visits every leaf of the tree
\* exactly once, in ascending key order (the last key of a non-empty leaf is
\* below the first key of the next non-empty one), ending at next_page_id = 0.
C23_LeafChainOrdered == Alive => LeafChainOrdered(tree)

\* the keys stored in the leaves below (and including) page id
SubtreeKeys(t, id) ==
    UNION {{LeafKeys(t, n[1])[i] : i \in 1..Len(LeafKeys(t, n[1]))} :
              n \in {x \in NodesBelow(t, id, 0, NumPages(t.pm)) : Data(t, x[1])[1] = NodeTypeLeaf}}

\* internal node id is a search-tree node: num_keys + 1 pointers to pages of
\* the file, separators strictly increasing, and every key below child i
\* under separator i, every key below child i + 1 at or above it
SearchNode(t, id) ==
    /\ ReadNonLeaf(Data(t, id)).ok
    /\ Len(ReadNonLeaf(Data(t, id)).childPtrs) = Uint32(Data(t, id), 1) + 1
    /\ \A i \in 1..Len(ReadNonLeaf(Data(t, id)).childPtrs) :
            /\ ReadNonLeaf(Data(t, id)).childPtrs[i] # 0
            /\ GetPageOk(t.pm, ReadNonLeaf(Data(t, id)).childPtrs[i])
    /\ StrictlyIncreasing(ReadNonLeaf(Data(t, id)).keys)
    /\ \A i \in 1..Len(ReadNonLeaf(Data(t, id)).keys) :
            /\ \A k \in SubtreeKeys(t, ReadNonLeaf(Data(t, id)).childPtrs[i]) :
                    BytesCompare(k, ReadNonLeaf(Data(t, id)).keys[i]) < 0
            /\ \A k \in SubtreeKeys(t, ReadNonLeaf(Data(t, id)).childPtrs[i + 1]) :
                    BytesCompare(k, ReadNonLeaf(Data(t, id)).keys[i]) >= 0

\* C24: search-tree invariant: every internal node reachable from the root
\* has num_keys + 1 child pointers and strictly increasing separators, all
\* keys below child i are less than separator i and all keys below child
\* i + 1 are greater than or equal to it.
C24_SearchTree == Alive => \A id \in TreeInternals(tree) : SearchNode(tree, id)

\* the leaf pages of the tree's file
LeafPages(t) == {id \in 1..(NumPages(t.pm) - 1) : Data(t, id)[1] = NodeTypeLeaf}

\* C25: root growth: after any sequence of Inserts every leaf that holds a
\* stored key is reachable from rootPageID, every stored key is in such a
\* leaf, and all leaves are at the same depth (a new root is made only when
\* the root itself splits; the split of another internal node goes into its
\* parent).
C25_RootGrowth ==
    Alive
    => /\ \A id \in LeafPages(tree) :
            (\E i \in 1..Len(LeafKeys(tree, id)) : LeafKeys(tree, id)[i] \in DOMAIN kv)
            => id \in TreeLeaves(tree)
       /\ \A k \in DOMAIN kv : k \in SubtreeKeys(tree, tree.rootPageID)
       /\ \A n \in TreeNodes(tree), m \in TreeNodes(tree) :
            (Data(tree, n[1])[1] = NodeTypeLeaf /\ Data(tree, m[1])[1] = NodeTypeLeaf)
            => n[2] = m[2]

\* C26: split threshold: inserting distinct keys into an empty tree with
\* fan-out M = MaxKeysPerNode, the first M Inserts cause no split (the root
\* is the only leaf and holds the keys), the (M+1)-th Insert causes exactly
\* one leaf split (two leaves), and no leaf ever holds more than M keys.
C26_SplitThreshold ==
    Alive
    => /\ Cardinality(DOMAIN kv) <= MaxKeysPerNode
            => /\ LeafPages(tree) = {tree.rootPageID}
               /\ Len(LeafKeys(tree, tree.rootPageID)) = Cardinality(DOMAIN kv)
       /\ Cardinality(DOMAIN kv) = MaxKeysPerNode + 1 => Cardinality(LeafPages(tree)) = 2
       /\ \A id \in LeafPages(tree) : Len(LeafKeys(tree, id)) <= MaxKeysPerNode

\* ------------------------------------------------- Delete, on SpecTree
\* the step is a Delete(k) that returned nil
DeleteSucceeded == ops' = ops + 1 /\ res'.op = "Delete" /\ res'.st = "ok"
\* the step is a Delete(k) that returned an error
DeleteFailed == ops' = ops + 1 /\ res'.op = "Delete" /\ res'.st = "err"

\* the entries es without the one at some position that holds key k
Without(es, k) == {RemoveAt(es, p) : p \in {q \in 1..Len(es) : es[q].key = k}}

\* leaf page id of tree t lost one entry with key k between t and u and kept
\* the others in order, with its type and next_page_id
LeafLostKey(t, u, id, k) ==
    /\ Data(t, id)[1] = NodeTypeLeaf
    /\ Data(u, id)[1] = NodeTypeLeaf
    /\ Uint32(Data(u, id), 5) = Uint32(Data(t, id), 5)
    /\ Uint32(Data(u, id), 1) = Uint32(Data(t, id), 1) - 1
    /\ getLeafNodeEntries(Data(u, id)).ok
    /\ getLeafNodeEntries(Data(u, id)).entries \in Without(getLeafNodeEntries(Data(t, id)).entries, k)

\* C27: Delete frame: a successful Delete(k) changes only the leaf that held
\* k (num_keys decreases by 1, the remaining entries keep their order); it
\* allocates and frees no page and leaves rootPageID, every internal node,
\* every other leaf and all next_page_id links unchanged.
C27_DeleteFrame ==
    [][DeleteSucceeded
       => /\ tree'.rootPageID = tree.rootPageID
          /\ NumPages(tree'.pm) = NumPages(tree.pm)
          /\ tree'.pm.freePages = tree.pm.freePages
          /\ \E id \in TreeLeaves(tree) :
                /\ LeafLostKey(tree, tree', id, res'.key)
                /\ \A other \in 0..(NumPages(tree.pm) - 1) :
                      other # id => Data(tree', other) = Data(tree, other)]_vars

\* a Delete returned nil on a tree of several leaves
C27_DeletedFromSplitTree ==
    /\ res.op = "Delete" /\ res.st = "ok"
    /\ Cardinality(TreeLeaves(tree)) >= 2
    /\ \E id \in TreeLeaves(tree) : Len(LeafKeys(tree, id)) >= 1

\* C28: Delete(k) of a key that is not present (not inserted, or deleted
\* since) returns the "key not found" error and leaves every page of the
\* tree unchanged.
C28_DeleteAbsent ==
    [][(ops' = ops + 1 /\ res'.op = "Delete" /\ res'.key \notin DOMAIN kv)
       => (res'.st = "err" /\ tree' = tree)]_vars

\* ------------------------------------------------- the catalog, on SpecStorage
\* the root_page_id the catalog page of the catalog file holds for its first
\* table (the model has one table name)
CatalogRootPageID(catalog) == Uint32(catalog[2], 4 + 4 + Uint32(catalog[2], 4))

\* C29: root id persistence: whenever saveCatalog has run (CreateTable,
\* DropTable, Close returned nil), the root_page_id the catalog file holds
\* for a table equals the rootPageID of the table's tree, also after Inserts
\* that replaced the root by a split.
C29_RootPersisted ==
    (impl = "disk" /\ sres.op \in {"CreateTable", "DropTable", "Close"} /\ sres.st = "ok"
        /\ TableT \in DOMAIN ds.tables)
    => /\ Len(files.catalog) >= 2
       /\ Uint32(files.catalog[2], 0) = 1
       /\ CatalogRootPageID(files.catalog) = ds.tables[TableT].IndexTree.rootPageID

\* ------------------------------------------------- flushing, on SpecPM
\* the image of page p in the file is the data of the cached page
OnDisk(mgr, p, data) == p + 1 <= Len(mgr.file) /\ mgr.file[p + 1] = data

\* C30: a FlushPage(id) whose file write fails returns the error and leaves
\* the page dirty with unchanged contents (so does every page of the cache);
\* a FlushPage that returns nil leaves the page clean; and in every step a
\* page's dirty flag is cleared only when the PageSize bytes of the page are
\* in the file at offset id * PageSize.
C30_FailedFlushKeepsDirty ==
    [][/\ (pops' = pops + 1 /\ pres'.op = "FlushPage" /\ pres'.st = "err")
            => /\ pmgr'.pageCache = pmgr.pageCache
               /\ pres'.id \in DOMAIN pmgr.pageCache
               /\ pmgr'.pageCache[pres'.id].dirty
       /\ (pops' = pops + 1 /\ pres'.op = "FlushPage" /\ pres'.st = "ok"
              /\ pres'.id \in DOMAIN pmgr.pageCache)
            => ~pmgr'.pageCache[pres'.id].dirty
       /\ (pops' = pops + 1 /\ pres'.op = "FlushAllPages" /\ pres'.st = "ok")
            => DirtyPages(pmgr') = {}
       /\ \A p \in DOMAIN pmgr.pageCache \cap DOMAIN pmgr'.pageCache :
            (pmgr.pageCache[p].dirty /\ ~pmgr'.pageCache[p].dirty)
            => /\ pmgr'.pageCache[p].data = pmgr.pageCache[p].data
               /\ OnDisk(pmgr', p, pmgr.pageCache[p].data)]_vars

\* the write of a dirty page failed after some bytes and the next FlushPage
\* of the page wrote it
C30_RetriedFlush ==
    /\ pres2.op = "FlushPage" /\ pres2.st = "err"
    /\ pres.op = "FlushPage" /\ pres.st = "ok" /\ pres.id = pres2.id
    /\ pres.id \in DOMAIN pmgr.pageCache
    /\ ~pmgr.pageCache[pres.id].dirty
    /\ OnDisk(pmgr, pres.id, pmgr.pageCache[pres.id].data)
    /\ pres.id # 0

\* C31: whenever AllocatePage returns an error, the page manager is left
\* consistent: if the file held numPages pages before the call it holds
\* numPages pages after it (numPages * PageSize is the file size), and no id
\* has left the free list.
C31_FailedAllocateConsistent ==
    [][(pres'.op = "AllocatePage" /\ pres'.st = "err" /\ pops' = pops + 1)
        => /\ (pmgr.numPages = Len(pmgr.file)) => (pmgr'.numPages = Len(pmgr'.file))
           /\ pmgr'.freePages = pmgr.freePages]_vars

\* C38: in every state reached by AllocatePage, GetPage, Unpin and FreePage
\* calls the free list holds no id twice, never holds the header page 0 and
\* never holds an id >= numPages.
C38_FreeListIntegrity ==
    /\ \A i, j \in 1..Len(pmgr.freePages) :
          i # j => pmgr.freePages[i] # pmgr.freePages[j]
    /\ \A i \in 1..Len(pmgr.freePages) :
          /\ pmgr.freePages[i] # 0
          /\ pmgr.freePages[i] < pmgr.numPages

\* ---------------------------------------------------- properties of SpecHeader
\* C32: for every page-manager state reached by allocating and freeing pages,
\* Close followed by NewPageManager on the same file succeeds and restores
\* numPages and the free list (same ids, same order).
C32_HeaderRoundTrip ==
    [][(pres'.op = "Reopen" /\ pops' = pops + 1)
        => /\ pres'.st = "ok"
           /\ pmgr'.numPages = pmgr.numPages
           /\ pmgr'.freePages = pmgr.freePages]_vars

\* ------------------------------------------- properties of the lock models
\* the caller is about to acquire mutex mu and holds it already
Reacquires(mu) ==
    /\ InCall /\ ~AtEnd
    /\ NextOp.k \in {"Lock", "RLock"} /\ NextOp.mu = mu
    /\ (lmutex[mu].w \/ lmutex[mu].r > 0)

\* C36: no PageManager operation tries to acquire cacheMutex while the same
\* caller already holds it (so every AllocatePage and FreePage of a single
\* caller returns with cacheMutex released).
C36_CacheMutexNotReacquired == ~Reacquires("cacheMutex")

\* C37: no DiskStorage operation tries to acquire ds.mu, for reading or for
\* writing, while the same caller already holds it (so every Update and Delete
\* on an existing table returns with ds.mu released).
C37_MuNotReacquired == ~Reacquires("mu")

\* ------------------------------------------------ properties of SpecGetPage
\* C40: when several goroutines called GetPage concurrently and all calls have
\* returned, the cache holds one Page object for the id, every call returned
\* that object, and its pin count is the number of GetPage calls that returned
\* it.
C40_PinsCounted ==
    (\A g \in DOMAIN gpc : gpc[g].pc = "idle")
    => \A o \in 1..Len(gobjs) :
          IF gobjs[o].id \in DOMAIN gcache /\ gcache[gobjs[o].id] = o
          THEN gobjs[o].pinCount = gret[o]
          ELSE o \in DOMAIN gret => gret[o] = 0

\* ---------------------------------------------------- properties of SpecDDL
\* C35: under any interleaving of concurrent Execute calls with CREATE TABLE
\* and DROP TABLE statements, whenever no Execute call is in progress the
\* table names of the catalog are the table names of the storage.
C35_CatalogStorageAgree ==
    (\A g \in DOMAIN xpc : xpc[g].pc = "idle")
    => /\ DOMAIN xcat = DOMAIN xms.tables
       /\ DOMAIN xms.schemas = DOMAIN xms.tables

\* no call is in progress after calls overlapped, a CREATE TABLE and a DROP
\* TABLE of one table succeeded, and a table exists
C35_OverlappedDDL ==
    /\ \A g \in DOMAIN xpc : xpc[g].pc = "idle"
    /\ xover
    /\ \E g, h \in DOMAIN xpc :
          /\ g # h
          /\ xpc[g].kind = "create" /\ xpc[g].res = "ResultSuccess"
          /\ xpc[h].kind = "drop" /\ xpc[h].res = "ResultSuccess"
          /\ xpc[h].table = xpc[g].table
    /\ DOMAIN xcat # {}

\* ---------------------------------------------------- properties of SpecPins
\* C33: after a BPlusTree operation returns, every page's pin count is what it
\* was before the operation.
C33_PinsBalanced ==
    [][pcalls' = pcalls + 1 => ppins' = ppins]_vars

\* --------------------------------------------------- row validity in storage
\* a stored row satisfies its table's schema: every NotNull column is present
\* and not Null, and every present value that is not Null carries the type of
\* its column
RowValid(schema, row) ==
    \A k \in 1..Len(schema.columns) :
        LET col == schema.columns[k]
        IN  /\ HasConstraint(col, ConstraintNotNull)
                 => (col.name \in DOMAIN row /\ ~IsNull(row[col.name]))
            /\ (col.name \in DOMAIN row /\ ~IsNull(row[col.name]))
                 => row[col.name].type = col.type

\* every row stored in a table of the storage in use is valid for its schema
StoredRowsValid ==
    /\ impl = "memory"
         => \A n \in DOMAIN ms.tables \cap DOMAIN ms.schemas :
                \A k \in 1..Len(ms.tables[n]) : RowValid(ms.schemas[n], ms.tables[n][k])
    /\ impl = "disk"
         => \A n \in DOMAIN ds.tables :
                DiskSelect(ds, n, <<>>, AllRows).st = "ok"
                  => \A k \in 1..Len(DiskSelect(ds, n, <<>>, AllRows).rows) :
                         RowValid(ds.tables[n].Schema, DiskSelect(ds, n, <<>>, AllRows).rows[k])

\* an Insert or Update that returned an error left the stored rows as they were
FailedWriteKeepsRows ==
    (sres'.op \in {"Insert", "Update"} /\ sres'.st = "err" /\ sops' = sops + 1)
      => /\ impl = "memory" => ms'.tables = ms.tables
         /\ impl = "disk" => \A n \in DOMAIN ds.tables :
                DiskSelect(ds', n, <<>>, AllRows) = DiskSelect(ds, n, <<>>, AllRows)

\* C34: after any sequence of Insert and Update calls every row stored in a
\* MemoryStorage or DiskStorage table is valid for the table's schema (NotNull
\* columns present and not Null, value types as declared), and an Insert or
\* Update that returned an error left the stored rows as they were.
C34_RowValidity == []StoredRowsValid /\ [][FailedWriteKeepsRows]_vars


\* ------------------------------------------------- properties of SpecCapacity
\* C39: for every sequence of Insert calls, whatever the lengths of the keys
\* and values, no Insert tries to write an entry past the end of a page: the
\* node is split or the call returns an error first, so the call does not end
\* in the run-time panic of a slice beyond the page.
C39_PageCapacity == ~(res.op = "Insert" /\ res.st = "panic")
====
